---- MODULE Spec2Model ----
(***************************************************************************)
(* brisc: single-hart, single-cycle RISC-V emulator.                       *)
(*                                                                         *)
(* The model is of the build with the features "64-bit", "m", "a" and "c"  *)
(* enabled.  An unsigned machine integer of w bits is modelled by the set  *)
(* of the positions of its 1 bits (a subset of 0..w-1), so that every      *)
(* value keeps its width: XWord is a subset of 0..63, Word of 0..31,       *)
(* HalfWord of 0..15.  Small fields (register indices, funct3, funct7,     *)
(* bytes, page offsets) are naturals.  Option<T> is a sequence of length   *)
(* 0 (None) or 1 (Some).                                                   *)
(***************************************************************************)
EXTENDS Integers, Sequences, FiniteSets, TLC

(***************************************************************************)
(* crates/isa/src/arch.rs                                                  *)
(***************************************************************************)
X_LEN == 64
W_BITS == 32
HW_BITS == 16
SHIFT_MASK == {0, 1, 2, 3, 4, 5}
REG_ZERO == 0
REG_RA == 1
REG_SP == 2
REG_A0 == 10
REG_A7 == 17

None == << >>
Some(x) == << x >>
IsSome(o) == Len(o) = 1
Unwrap(o) == o[1]

\* Below, CHOOSE y \in {e(x) : x \in {v}} : TRUE is e(v), with v computed once.

(***************************************************************************)
(* Machine integers as bit sets.                                           *)
(***************************************************************************)
MaxOf(S) == CHOOSE x \in S : \A y \in S : y <= x
MinNat(a, b) == IF a <= b THEN a ELSE b

RECURSIVE ToNat(_)
ToNat(s) == IF s = {} THEN 0
            ELSE LET b == CHOOSE x \in s : TRUE IN 2^b + ToNat(s \ {b})

\* a natural (below 2^31) as a value of w bits
FromNat(n, w) == {i \in 0..(MinNat(w, 31) - 1) : (n \div 2^i) % 2 = 1}

\* v as $ty: truncation to the low w bits
Trunc(v, w) == {b \in v : b < w}
\* v >> k
Shr(v, k) == {b - k : b \in {x \in v : x >= k}}
\* v << k in a type of w bits
Shl(v, k, w) == {b + k : b \in {x \in v : x + k < w}}
BitAnd(a, b) == a \cap b
BitOr(a, b) == a \cup b
BitXor(a, b) == (a \ b) \cup (b \ a)
\* !v in a type of w bits
BitNot(v, w) == (0..(w - 1)) \ v

\* the carry into bit i of a + b + c
Carry(a, b, c, i) ==
    \/ \E j \in a \cap b : j < i /\ \A k \in (j + 1)..(i - 1) : k \in a \cup b
    \/ c /\ \A k \in 0..(i - 1) : k \in a \cup b

\* the low n bits of a + b + c
AddC(a, b, c, n) ==
    CHOOSE y \in {{i \in 0..(n - 1) : ((i \in p[1]) # (i \in p[2])) # Carry(p[1], p[2], c, i)} :
                  p \in {<< a, b >>}} : TRUE

\* a.wrapping_add(b) in a type of w bits
WrappingAdd(a, b, w) == AddC(a, b, FALSE, w)

\* whether a + b overflows a type of w bits (the carry out of bit w-1)
AddOverflows(a, b, w) == \E p \in {<< a, b >>} : Carry(p[1], p[2], FALSE, w)

\* a.wrapping_sub(b) in a type of w bits: a + !b + 1
WrappingSub(a, b, w) == AddC(a, BitNot(b, w), TRUE, w)

\* unsigned a < b
LtU(a, b) == \E d \in {BitXor(a, b)} : d # {} /\ MaxOf(d) \in b
\* signed a < b in a type of w bits
LtS(a, b, w) ==
    IF ((w - 1) \in a) # ((w - 1) \in b) THEN (w - 1) \in a ELSE LtU(a, b)

(***************************************************************************)
(* crates/isa/src/bits.rs                                                  *)
(***************************************************************************)
\* bits!(ty, value, lo..hi) with ty of w bits
bits(value, lo, hi, w) == Trunc({b - lo : b \in {x \in value : x >= lo /\ x < hi}}, w)

\* bits!(u8, value, lo..hi) as a natural
bits8(value, lo, hi) == ToNat(bits(value, lo, hi, 8))

\* twiddle!(ty, value, r1, r2, ...) with ty of w bits; ranges is a sequence of <<lo, hi>>
RECURSIVE TwiddleAcc(_, _, _, _)
TwiddleAcc(value, ranges, result, w) ==
    IF ranges = << >> THEN result
    ELSE LET r == Head(ranges)
             width == r[2] - r[1]
         IN  TwiddleAcc(value, Tail(ranges),
                        BitOr(Shl(result, width, w), bits(value, r[1], r[2], w)), w)

twiddle(value, ranges, w) == TwiddleAcc(value, ranges, {}, w)

\* sign_extend(data, index) in a type of field_size bits
sign_extend(data, index, field_size) ==
    IF index \in data
    THEN BitOr(data, Shl(Shr(0..(field_size - 1), index), index, field_size))
    ELSE BitAnd(data, Shr(0..(field_size - 1), field_size - 1 - index))

(***************************************************************************)
(* crates/hw/src/memory: SimpleMemory is a map from page index to page.    *)
(* A page ([u8; PAGE_SIZE]) is represented by its non-zero bytes: a        *)
(* function from the offsets holding a non-zero byte to that byte.         *)
(***************************************************************************)
PAGE_ADDRESS_SIZE == 12
PAGE_SIZE == 2^PAGE_ADDRESS_SIZE
PAGE_ADDRESS_MASK == PAGE_SIZE - 1
EMPTY_PAGE == [o \in {} |-> 0]
HW_LEN == HW_BITS \div 8
W_LEN == W_BITS \div 8
DW_LEN == X_LEN \div 8

PageByte(pg, off) == IF off \in DOMAIN pg THEN pg[off] ELSE 0

\* page[off..off+Len(dat)].copy_from_slice(dat)
PageWrite(pg, off, dat) ==
    LET offs == off..(off + Len(dat) - 1)
        new(o) == dat[o - off + 1]
        keep == {o \in (DOMAIN pg) \cup offs : IF o \in offs THEN new(o) # 0 ELSE TRUE}
    IN  [o \in keep |-> IF o \in offs THEN new(o) ELSE pg[o]]

\* Memory::page
page(mem, page_index) == IF page_index \in DOMAIN mem THEN Some(mem[page_index]) ELSE None

\* an allocation that drops every other page
alloc_only(mem, page_index) ==
    [p \in {page_index} |-> IF page_index \in DOMAIN mem THEN mem[page_index] ELSE EMPTY_PAGE]

\* Memory::alloc: entry(page_index).or_insert_with(EMPTY_PAGE)
alloc(mem, page_index) ==
    IF page_index \in DOMAIN mem THEN mem
    ELSE [p \in (DOMAIN mem) \cup {page_index} |->
            IF p = page_index THEN EMPTY_PAGE ELSE mem[p]]

\* the page found by page_mut, or else allocated, written at off with dat
PageMutOrAllocWrite(mem, page_index, off, dat) ==
    LET m1 == alloc(mem, page_index)
    IN  [m1 EXCEPT ![page_index] = PageWrite(m1[page_index], off, dat)]

PageIndexOf(address) == Shr(address, PAGE_ADDRESS_SIZE)
PageAddressOf(address) == ToNat(Trunc(address, PAGE_ADDRESS_SIZE))

from_le_bytes(dat) ==
    UNION {{8 * (i - 1) + b : b \in FromNat(dat[i], 8)} : i \in 1..Len(dat)}

\* the bytes of v from the most significant down
to_be_bytes(v, len) == [i \in 1..len |-> ToNat(bits(v, 8 * (len - i), 8 * (len - i + 1), 8))]

to_le_bytes(v, len) == [i \in 1..len |-> ToNat(bits(v, 8 * (i - 1), 8 * i, 8))]

\* The body shared by get_halfword, get_word and get_doubleword (LEN bytes).
GetScalar(mem, address, LEN) ==
    LET page_index == PageIndexOf(address)
        page_address == PageAddressOf(address)
        p1 == page(mem, page_index)
        dat_len == MinNat(LEN, PAGE_SIZE - page_address)
        count == IF IsSome(p1) THEN dat_len ELSE 0
        p2 == page(mem, WrappingAdd(page_index, {0}, X_LEN))
        dat == [i \in 1..LEN |->
                  IF i <= count THEN PageByte(Unwrap(p1), page_address + i - 1)
                  ELSE IF count < LEN /\ IsSome(p2) THEN PageByte(Unwrap(p2), i - count - 1)
                  ELSE 0]
    IN  from_le_bytes(dat)

\* a write that stops at the end of the page of the address
SetScalar_first_page(mem, address, value, LEN) ==
    LET page_address == PageAddressOf(address)
        dat_len == MinNat(LEN, PAGE_SIZE - page_address)
    IN  PageMutOrAllocWrite(mem, PageIndexOf(address), page_address,
                            SubSeq(to_le_bytes(value, LEN), 1, dat_len))

\* The body shared by set_halfword, set_word and set_doubleword (LEN bytes).
SetScalar(mem, address, value, LEN) ==
    LET page_index == PageIndexOf(address)
        page_address == PageAddressOf(address)
        dat == to_le_bytes(value, LEN)
        dat_len == MinNat(LEN, PAGE_SIZE - page_address)
        m1 == PageMutOrAllocWrite(mem, page_index, page_address, SubSeq(dat, 1, dat_len))
    IN  IF dat_len < LEN
        THEN PageMutOrAllocWrite(m1, WrappingAdd(page_index, {0}, X_LEN), 0,
                                 SubSeq(dat, dat_len + 1, LEN))
        ELSE m1

get_byte(mem, address) ==
    LET p == page(mem, PageIndexOf(address))
    IN  IF IsSome(p) THEN FromNat(PageByte(Unwrap(p), PageAddressOf(address)), 8) ELSE {}

set_byte(mem, address, value) ==
    PageMutOrAllocWrite(mem, PageIndexOf(address), PageAddressOf(address),
                        to_le_bytes(value, 1))

get_halfword(mem, address) == GetScalar(mem, address, HW_LEN)
set_halfword(mem, address, value) == SetScalar(mem, address, value, HW_LEN)
get_word(mem, address) == GetScalar(mem, address, W_LEN)
set_word(mem, address, value) == SetScalar(mem, address, value, W_LEN)
get_doubleword(mem, address) == GetScalar(mem, address, DW_LEN)
set_doubleword(mem, address, value) == SetScalar(mem, address, value, DW_LEN)

(***************************************************************************)
(* Result<T, E>                                                            *)
(***************************************************************************)
Ok(v) == [ok |-> TRUE, v |-> v]
Err(e) == [ok |-> FALSE, e |-> e]

(***************************************************************************)
(* crates/hw/src/memory/interface.rs: the MemoryResult of the scalar       *)
(* accessors, by the length in bytes of the scalar.                        *)
(***************************************************************************)
\* crates/hw/src/memory/errors.rs: MemoryError::UnalignedAccess
UnalignedAccess(address) == << "UnalignedAccess", address >>

\* whether address is a multiple of LEN
IsAligned(address, LEN) == ToNat(Trunc(address, 3)) % LEN = 0

ScalarGet(mem, address, LEN) ==
    CASE LEN = 1 -> get_byte(mem, address)
      [] LEN = HW_LEN -> get_halfword(mem, address)
      [] LEN = W_LEN -> get_word(mem, address)
      [] LEN = DW_LEN -> get_doubleword(mem, address)

ScalarSet(mem, address, value, LEN) ==
    CASE LEN = 1 -> set_byte(mem, address, value)
      [] LEN = HW_LEN -> set_halfword(mem, address, value)
      [] LEN = W_LEN -> set_word(mem, address, value)
      [] LEN = DW_LEN -> set_doubleword(mem, address, value)

\* accessors that refuse an address that is not naturally aligned
scalar_get_aligned(mem, address, LEN) ==
    IF IsAligned(address, LEN) THEN Ok(ScalarGet(mem, address, LEN))
    ELSE Err(UnalignedAccess(address))

scalar_set_aligned(mem, address, value, LEN) ==
    IF IsAligned(address, LEN)
    THEN [res |-> Ok(<< >>), m |-> ScalarSet(mem, address, value, LEN)]
    ELSE [res |-> Err(UnalignedAccess(address)), m |-> mem]

\* memory.get_X(address): Ok(X::from_le_bytes(dat)), for every address
scalar_get(mem, address, LEN) == Ok(ScalarGet(mem, address, LEN))

\* memory.set_X(address, value): the result, and the memory it leaves.  The only
\* error is that of alloc, and SimpleMemory::alloc returns Ok.
scalar_set(mem, address, value, LEN) ==
    [res |-> Ok(<< >>), m |-> ScalarSet(mem, address, value, LEN)]

InvalidOpcode(opcode) == << "InvalidOpcode", opcode >>
InvalidFunction(q_a, q_b) == << "InvalidFunction", q_a, q_b >>

(***************************************************************************)
(* crates/isa/src/instructions: the six base instruction formats           *)
(***************************************************************************)
IType_decode(instruction) ==
    [rd |-> bits8(instruction, 7, 12),
     funct3 |-> bits8(instruction, 12, 15),
     rs1 |-> bits8(instruction, 15, 20),
     imm |-> sign_extend(bits(instruction, 20, 32, X_LEN), 11, X_LEN)]

RType_decode(instruction) ==
    [rd |-> bits8(instruction, 7, 12),
     funct3 |-> bits8(instruction, 12, 15),
     rs1 |-> bits8(instruction, 15, 20),
     rs2 |-> bits8(instruction, 20, 25),
     funct7 |-> bits8(instruction, 25, 32)]

SType_decode(instruction) ==
    [funct3 |-> bits8(instruction, 12, 15),
     rs1 |-> bits8(instruction, 15, 20),
     rs2 |-> bits8(instruction, 20, 25),
     imm |-> sign_extend(twiddle(instruction, << <<25, 32>>, <<7, 12>> >>, X_LEN), 11, X_LEN)]

BType_decode(instruction) ==
    [funct3 |-> bits8(instruction, 12, 15),
     rs1 |-> bits8(instruction, 15, 20),
     rs2 |-> bits8(instruction, 20, 25),
     imm |-> sign_extend(
                Shl(twiddle(instruction,
                            << <<31, 32>>, <<7, 8>>, <<25, 31>>, <<8, 12>> >>, X_LEN),
                    1, X_LEN),
                12, X_LEN)]

UType_decode(instruction) ==
    [rd |-> bits8(instruction, 7, 12),
     imm |-> sign_extend(Shl(bits(instruction, 12, 32, X_LEN), 12, X_LEN), 31, X_LEN)]

JType_decode(instruction) ==
    [rd |-> bits8(instruction, 7, 12),
     imm |-> sign_extend(
                Shl(twiddle(instruction,
                            << <<31, 32>>, <<12, 20>>, <<20, 21>>, <<21, 31>> >>, X_LEN),
                    1, X_LEN),
                20, X_LEN)]

\* IType::default()
IType_default == [rd |-> 0, funct3 |-> 0, rs1 |-> 0, imm |-> {}]

(***************************************************************************)
(* crates/isa/src/functions.rs                                             *)
(***************************************************************************)
RegisterArithmeticFunction_try_from(value) ==
    LET k == << value.funct3, value.funct7 >>
    IN  CASE k = <<0, 0>> -> Ok("Add")
          [] k = <<0, 32>> -> Ok("Sub")
          [] k = <<4, 0>> -> Ok("Xor")
          [] k = <<6, 0>> -> Ok("Or")
          [] k = <<7, 0>> -> Ok("And")
          [] k = <<1, 0>> -> Ok("Sll")
          [] k = <<5, 0>> -> Ok("Srl")
          [] k = <<5, 32>> -> Ok("Sra")
          [] k = <<2, 0>> -> Ok("Slt")
          [] k = <<3, 0>> -> Ok("Sltu")
          [] k = <<0, 1>> -> Ok("Mul")
          [] k = <<1, 1>> -> Ok("Mulh")
          [] k = <<2, 1>> -> Ok("Mulhsu")
          [] k = <<3, 1>> -> Ok("Mulhu")
          [] k = <<4, 1>> -> Ok("Div")
          [] k = <<5, 1>> -> Ok("Divu")
          [] k = <<6, 1>> -> Ok("Rem")
          [] k = <<7, 1>> -> Ok("Remu")
          [] OTHER -> Err(InvalidFunction(value.funct3, value.funct7))

RegisterArithmeticWordFunction_try_from(value) ==
    LET k == << value.funct3, value.funct7 >>
    IN  CASE k = <<0, 0>> -> Ok("Addw")
          [] k = <<0, 32>> -> Ok("Subw")
          [] k = <<1, 0>> -> Ok("Sllw")
          [] k = <<5, 0>> -> Ok("Srlw")
          [] k = <<5, 32>> -> Ok("Sraw")
          [] k = <<0, 1>> -> Ok("Mulw")
          [] k = <<4, 1>> -> Ok("Divw")
          [] k = <<5, 1>> -> Ok("Divuw")
          [] k = <<6, 1>> -> Ok("Remw")
          [] k = <<7, 1>> -> Ok("Remuw")
          [] OTHER -> Err(InvalidFunction(value.funct3, value.funct7))

ImmediateArithmeticFunction_try_from(value) ==
    LET f == value.funct3
    IN  CASE f = 0 -> Ok("Addi")
          [] f = 1 -> Ok("Slli")
          [] f = 2 -> Ok("Slti")
          [] f = 3 -> Ok("Sltiu")
          [] f = 4 -> Ok("Xori")
          [] f = 5 /\ bits8(value.imm, 6, 12) = 0 -> Ok("Srli")
          [] f = 5 /\ bits8(value.imm, 6, 12) = 16 -> Ok("Srai")
          [] f = 6 -> Ok("Ori")
          [] f = 7 -> Ok("Andi")
          [] OTHER -> Err(InvalidFunction(value.funct3, bits8(value.imm, 5, 12)))

ImmediateArithmeticWordFunction_try_from(value) ==
    LET f == value.funct3
    IN  CASE f = 0 -> Ok("Addiw")
          [] f = 1 /\ bits8(value.imm, 5, 12) = 0 -> Ok("Slliw")
          [] f = 5 /\ bits8(value.imm, 5, 12) = 0 -> Ok("Srliw")
          [] f = 5 /\ bits8(value.imm, 5, 12) = 32 -> Ok("Sraiw")
          [] OTHER -> Err(InvalidFunction(value.funct3, bits8(value.imm, 5, 12)))

LoadFunction_try_from(value) ==
    LET f == value.funct3
    IN  CASE f = 0 -> Ok("Lb")
          [] f = 1 -> Ok("Lh")
          [] f = 2 -> Ok("Lw")
          [] f = 4 -> Ok("Lbu")
          [] f = 5 -> Ok("Lhu")
          [] f = 6 -> Ok("Lwu")
          [] f = 3 -> Ok("Ld")
          [] OTHER -> Err(InvalidFunction(value.funct3, 0))

StoreFunction_try_from(value) ==
    LET f == value.funct3
    IN  CASE f = 0 -> Ok("Sb")
          [] f = 1 -> Ok("Sh")
          [] f = 2 -> Ok("Sw")
          [] f = 3 -> Ok("Sd")
          [] OTHER -> Err(InvalidFunction(value.funct3, 0))

BranchFunction_try_from(value) ==
    LET f == value.funct3
    IN  CASE f = 0 -> Ok("Beq")
          [] f = 1 -> Ok("Bne")
          [] f = 4 -> Ok("Blt")
          [] f = 5 -> Ok("Bge")
          [] f = 6 -> Ok("Bltu")
          [] f = 7 -> Ok("Bgeu")
          [] OTHER -> Err(InvalidFunction(value.funct3, 0))

EnvironmentFunction_try_from(value) ==
    IF value.funct3 = 0 /\ value.imm = {} THEN Ok("Ecall") ELSE Ok("Ebreak")

AmoFunction_try_from(value) ==
    LET afunct5 == bits8(FromNat(value.funct7, 8), 2, 7)
    IN  CASE afunct5 = 2 -> Ok("Lr")
          [] afunct5 = 3 -> Ok("Sc")
          [] afunct5 = 1 -> Ok("Amoswap")
          [] afunct5 = 0 -> Ok("Amoadd")
          [] afunct5 = 4 -> Ok("Amoxor")
          [] afunct5 = 12 -> Ok("Amoand")
          [] afunct5 = 8 -> Ok("Amoor")
          [] afunct5 = 16 -> Ok("Amomin")
          [] afunct5 = 20 -> Ok("Amomax")
          [] afunct5 = 24 -> Ok("Amominu")
          [] afunct5 = 28 -> Ok("Amomaxu")
          [] OTHER -> Err(InvalidFunction(afunct5, 0))

(***************************************************************************)
(* crates/isa/src/instructions.rs: enum Instruction.  A value of the enum  *)
(* is a record of its variant (op), its decoded format (t) and its         *)
(* function (f).                                                           *)
(***************************************************************************)
Instruction(op, t, f) == [op |-> op, t |-> t, f |-> f]
NoFunction == "-"
Fence == Instruction("Fence", << >>, NoFunction)

(***************************************************************************)
(* crates/isa/src/instructions/rvc/types.rs                                *)
(***************************************************************************)
CRType_decode(instruction) ==
    [rs1_rd |-> bits8(instruction, 7, 12),
     rs2 |-> bits8(instruction, 2, 7),
     funct4 |-> bits8(instruction, 12, 16)]

CIType_decode(instruction) ==
    [rs1_rd |-> bits8(instruction, 7, 12),
     funct3 |-> bits8(instruction, 13, 16),
     imm |-> twiddle(instruction, << <<12, 13>>, <<2, 7>> >>, HW_BITS)]

CSSType_decode(instruction) ==
    [rs2 |-> bits8(instruction, 2, 7),
     funct3 |-> bits8(instruction, 13, 16),
     imm |-> bits(instruction, 7, 13, HW_BITS)]

CIWType_decode(instruction) ==
    [rd |-> bits8(instruction, 2, 5),
     funct3 |-> bits8(instruction, 13, 16),
     imm |-> bits(instruction, 5, 13, HW_BITS)]

CLType_decode(instruction) ==
    [rd |-> bits8(instruction, 2, 5),
     rs1 |-> bits8(instruction, 7, 10),
     funct3 |-> bits8(instruction, 13, 16),
     imm |-> twiddle(instruction, << <<10, 13>>, <<5, 7>> >>, HW_BITS)]

CSType_decode(instruction) ==
    [rs1 |-> bits8(instruction, 7, 10),
     rs2 |-> bits8(instruction, 2, 5),
     funct3 |-> bits8(instruction, 13, 16),
     imm |-> twiddle(instruction, << <<10, 13>>, <<5, 7>> >>, HW_BITS)]

CBType_decode(instruction) ==
    [rs1 |-> bits8(instruction, 7, 10),
     funct3 |-> bits8(instruction, 13, 16),
     offset |-> twiddle(instruction, << <<10, 13>>, <<2, 7>> >>, HW_BITS)]

CJType_decode(instruction) ==
    [funct3 |-> bits8(instruction, 13, 16),
     target |-> bits(instruction, 2, 13, HW_BITS)]

(***************************************************************************)
(* crates/isa/src/instructions/rvc/mod.rs                                  *)
(***************************************************************************)
C_REG_OFFSET == 8

is_compressed(instr) == BitAnd(instr, {0, 1}) # {0, 1}

map_compressed_reg_idx(reg) == reg + C_REG_OFFSET

\* a variant of one of the compressed enums: its name and its decoded format
CVariant(k, t) == [k |-> k, t |-> t]

C0_decode(instruction) ==
    LET funct3 == bits8(instruction, 13, 16)
    IN  CASE funct3 = 0 -> Ok(CVariant("CAddi4spn", CIWType_decode(instruction)))
          [] funct3 = 2 -> Ok(CVariant("CLw", CLType_decode(instruction)))
          [] funct3 = 6 -> Ok(CVariant("CSw", CSType_decode(instruction)))
          [] funct3 = 3 -> Ok(CVariant("CLd", CLType_decode(instruction)))
          [] funct3 = 7 -> Ok(CVariant("CSd", CSType_decode(instruction)))
          [] OTHER -> Err(InvalidFunction(funct3, 0))

C0_expand(c0) ==
    LET t == c0.t
    IN  CASE c0.k = "CAddi4spn" ->
               LET nzuimm == Shl(twiddle(t.imm, << <<2, 4>>, <<4, 8>>, <<0, 1>>, <<1, 2>> >>,
                                         X_LEN), 2, X_LEN)
               IN  Instruction("ImmediateArithmetic",
                               [rd |-> map_compressed_reg_idx(t.rd), funct3 |-> 0,
                                rs1 |-> REG_SP, imm |-> nzuimm],
                               "Addi")
          [] c0.k = "CLw" ->
               Instruction("MemoryLoad",
                           [rd |-> map_compressed_reg_idx(t.rd), funct3 |-> 2,
                            rs1 |-> map_compressed_reg_idx(t.rs1),
                            imm |-> Shl(twiddle(t.imm, << <<0, 1>>, <<2, 5>>, <<1, 2>> >>,
                                                X_LEN), 2, X_LEN)],
                           "Lw")
          [] c0.k = "CSw" ->
               Instruction("MemoryStore",
                           [funct3 |-> 2, rs1 |-> map_compressed_reg_idx(t.rs1),
                            rs2 |-> map_compressed_reg_idx(t.rs2),
                            imm |-> Shl(twiddle(t.imm, << <<0, 1>>, <<2, 5>>, <<1, 2>> >>,
                                                X_LEN), 2, X_LEN)],
                           "Sw")
          [] c0.k = "CLd" ->
               Instruction("MemoryLoad",
                           [rd |-> map_compressed_reg_idx(t.rd), funct3 |-> t.funct3,
                            rs1 |-> map_compressed_reg_idx(t.rs1),
                            imm |-> Shl(twiddle(t.imm, << <<0, 2>>, <<2, 5>> >>, X_LEN),
                                        3, X_LEN)],
                           "Ld")
          [] c0.k = "CSd" ->
               Instruction("MemoryStore",
                           [funct3 |-> t.funct3, rs1 |-> map_compressed_reg_idx(t.rs1),
                            rs2 |-> map_compressed_reg_idx(t.rs2),
                            imm |-> Shl(twiddle(t.imm, << <<0, 2>>, <<2, 5>> >>, X_LEN),
                                        3, X_LEN)],
                           "Sd")

C1SubFunct_decode(instruction) ==
    LET funct6_low == bits8(instruction, 10, 12)
        funct2 == bits8(instruction, 5, 7)
        arch_sel == bits8(instruction, 12, 13)
    IN  CASE funct6_low = 0 -> Ok(CVariant("CSrli", CBType_decode(instruction)))
          [] funct6_low = 1 -> Ok(CVariant("CSrai", CBType_decode(instruction)))
          [] funct6_low = 2 -> Ok(CVariant("CAndi", CBType_decode(instruction)))
          [] funct6_low = 3 ->
               (CASE funct2 = 0 /\ arch_sel = 0 -> Ok(CVariant("CSub", CSType_decode(instruction)))
                  [] funct2 = 1 /\ arch_sel = 0 -> Ok(CVariant("CXor", CSType_decode(instruction)))
                  [] funct2 = 2 -> Ok(CVariant("COr", CSType_decode(instruction)))
                  [] funct2 = 3 -> Ok(CVariant("CAnd", CSType_decode(instruction)))
                  [] funct2 = 0 /\ arch_sel = 1 -> Ok(CVariant("CSubw", CSType_decode(instruction)))
                  [] funct2 = 1 /\ arch_sel = 1 -> Ok(CVariant("CAddw", CSType_decode(instruction)))
                  [] OTHER -> Err(InvalidFunction(funct2, arch_sel)))
          [] OTHER -> Err(InvalidFunction(funct6_low, 0))

\* the RType of the register-register sub-functions
C1SubRType(cs, funct3, funct7) ==
    [rd |-> map_compressed_reg_idx(cs.rs1), funct3 |-> funct3,
     rs1 |-> map_compressed_reg_idx(cs.rs1), rs2 |-> map_compressed_reg_idx(cs.rs2),
     funct7 |-> funct7]

\* the IType of the immediate sub-functions
C1SubIType(cb, funct3, imm) ==
    [rd |-> map_compressed_reg_idx(cb.rs1), funct3 |-> funct3,
     rs1 |-> map_compressed_reg_idx(cb.rs1), imm |-> imm]

C1SubFunct_map(sf) ==
    LET t == sf.t
        shamt == twiddle(t.offset, << <<7, 8>>, <<0, 5>> >>, X_LEN)
    IN  CASE sf.k = "CSrli" ->
               Instruction("ImmediateArithmetic", C1SubIType(t, 5, shamt), "Srli")
          [] sf.k = "CSrai" ->
               Instruction("ImmediateArithmetic", C1SubIType(t, 5, BitOr(shamt, {10})), "Srai")
          [] sf.k = "CAndi" ->
               Instruction("ImmediateArithmetic",
                           C1SubIType(t, 7, sign_extend(shamt, 5, X_LEN)), "Andi")
          [] sf.k = "CSub" -> Instruction("RegisterArithmetic", C1SubRType(t, 0, 32), "Sub")
          [] sf.k = "CXor" -> Instruction("RegisterArithmetic", C1SubRType(t, 4, 0), "Xor")
          [] sf.k = "COr" -> Instruction("RegisterArithmetic", C1SubRType(t, 6, 0), "Or")
          [] sf.k = "CAnd" -> Instruction("RegisterArithmetic", C1SubRType(t, 7, 0), "And")
          [] sf.k = "CSubw" ->
               Instruction("RegisterArithmeticWord", C1SubRType(t, 0, 32), "Subw")
          [] sf.k = "CAddw" ->
               Instruction("RegisterArithmeticWord", C1SubRType(t, 0, 0), "Addw")

C1_decode(instruction) ==
    LET funct3 == bits8(instruction, 13, 16)
        rs1_rd == bits8(instruction, 7, 12)
    IN  CASE funct3 = 0 -> Ok(CVariant("CAddi", CIType_decode(instruction)))
          [] funct3 = 1 ->
               IF rs1_rd = 0 THEN Err(InvalidFunction(funct3, 0))
               ELSE Ok(CVariant("CAddiw", CIType_decode(instruction)))
          [] funct3 = 2 -> Ok(CVariant("CLi", CIType_decode(instruction)))
          [] funct3 = 3 ->
               IF rs1_rd = 2 THEN Ok(CVariant("CAddi16sp", CIType_decode(instruction)))
               ELSE IF rs1_rd # 0 THEN Ok(CVariant("CLui", CIType_decode(instruction)))
               ELSE Err(InvalidFunction(funct3, 0))
          [] funct3 = 4 ->
               LET sf == C1SubFunct_decode(instruction)
               IN  IF sf.ok THEN Ok(CVariant("SubFunct", sf.v)) ELSE sf
          [] funct3 = 5 -> Ok(CVariant("CJ", CJType_decode(instruction)))
          [] funct3 = 6 -> Ok(CVariant("CBeqz", CBType_decode(instruction)))
          [] funct3 = 7 -> Ok(CVariant("CBnez", CBType_decode(instruction)))
          [] OTHER -> Err(InvalidFunction(funct3, 0))

\* the jump target of C.J and C.JAL
CJTarget(cj) ==
    Shl(twiddle(cj.target,
                << <<10, 11>>, <<6, 7>>, <<7, 9>>, <<4, 5>>, <<5, 6>>, <<0, 1>>,
                   <<9, 10>>, <<1, 4>> >>, X_LEN), 1, X_LEN)

\* the branch target of C.BEQZ and C.BNEZ
CBTarget(cb) ==
    Shl(twiddle(cb.offset, << <<7, 8>>, <<3, 5>>, <<0, 1>>, <<5, 7>>, <<1, 3>> >>, X_LEN),
        1, X_LEN)

C1_expand(c1) ==
    LET t == c1.t
    IN  CASE c1.k = "CAddi" ->
               Instruction("ImmediateArithmetic",
                           [rd |-> t.rs1_rd, funct3 |-> 0, rs1 |-> t.rs1_rd,
                            imm |-> sign_extend(t.imm, 5, X_LEN)],
                           "Addi")
          [] c1.k = "CJal" ->
               Instruction("Jal", [rd |-> REG_RA, imm |-> sign_extend(CJTarget(t), 11, X_LEN)],
                           NoFunction)
          [] c1.k = "CLi" ->
               Instruction("ImmediateArithmetic",
                           [rd |-> t.rs1_rd, funct3 |-> 0, rs1 |-> REG_ZERO,
                            imm |-> sign_extend(t.imm, 5, X_LEN)],
                           "Addi")
          [] c1.k = "CAddi16sp" ->
               LET nzimm == Shl(twiddle(t.imm,
                                        << <<5, 6>>, <<1, 3>>, <<3, 4>>, <<0, 1>>, <<4, 5>> >>,
                                        X_LEN), 4, X_LEN)
               IN  Instruction("ImmediateArithmetic",
                               [rd |-> REG_SP, funct3 |-> 0, rs1 |-> REG_SP,
                                imm |-> sign_extend(nzimm, 9, X_LEN)],
                               "Addi")
          [] c1.k = "CLui" ->
               Instruction("Lui",
                           [rd |-> t.rs1_rd,
                            imm |-> sign_extend(Shl(t.imm, 12, X_LEN), 17, X_LEN)],
                           NoFunction)
          [] c1.k = "SubFunct" -> C1SubFunct_map(t)
          [] c1.k = "CJ" ->
               Instruction("Jal", [rd |-> REG_ZERO, imm |-> sign_extend(CJTarget(t), 11, X_LEN)],
                           NoFunction)
          [] c1.k = "CBeqz" ->
               Instruction("Branch",
                           [funct3 |-> 0, rs1 |-> map_compressed_reg_idx(t.rs1),
                            rs2 |-> REG_ZERO, imm |-> sign_extend(CBTarget(t), 8, X_LEN)],
                           "Beq")
          [] c1.k = "CBnez" ->
               Instruction("Branch",
                           [funct3 |-> 1, rs1 |-> map_compressed_reg_idx(t.rs1),
                            rs2 |-> REG_ZERO, imm |-> sign_extend(CBTarget(t), 8, X_LEN)],
                           "Bne")
          [] c1.k = "CAddiw" ->
               Instruction("ImmediateArithmeticWord",
                           [rd |-> t.rs1_rd, funct3 |-> 0, rs1 |-> t.rs1_rd,
                            imm |-> sign_extend(t.imm, 5, X_LEN)],
                           "Addiw")

C2SubFunct_decode(instruction) ==
    LET sel == bits8(instruction, 12, 13)
        cr == CRType_decode(instruction)
    IN  CASE sel = 0 ->
               IF cr.rs2 = 0 THEN Ok(CVariant("CJr", cr)) ELSE Ok(CVariant("CMv", cr))
          [] sel = 1 ->
               (CASE cr.rs2 = 0 /\ cr.rs1_rd = 0 -> Ok(CVariant("CEBreak", cr))
                  [] cr.rs2 = 0 /\ cr.rs1_rd # 0 -> Ok(CVariant("CJalr", cr))
                  [] cr.rs2 # 0 /\ cr.rs1_rd # 0 -> Ok(CVariant("CAdd", cr))
                  [] OTHER -> Err(InvalidFunction(sel, 0)))
          [] OTHER -> Err(InvalidFunction(sel, 0))

C2SubFunct_map(sf) ==
    LET cr == sf.t
    IN  CASE sf.k = "CJr" ->
               Instruction("Jalr", [rd |-> REG_ZERO, funct3 |-> 0, rs1 |-> cr.rs1_rd, imm |-> {}],
                           NoFunction)
          [] sf.k = "CMv" ->
               Instruction("RegisterArithmetic",
                           [rd |-> cr.rs1_rd, funct3 |-> 0, rs1 |-> REG_ZERO, rs2 |-> cr.rs2,
                            funct7 |-> 0],
                           "Add")
          [] sf.k = "CJalr" ->
               Instruction("Jalr", [rd |-> REG_RA, funct3 |-> 0, rs1 |-> cr.rs1_rd, imm |-> {}],
                           NoFunction)
          [] sf.k = "CAdd" ->
               Instruction("RegisterArithmetic",
                           [rd |-> cr.rs1_rd, funct3 |-> 0, rs1 |-> cr.rs1_rd, rs2 |-> cr.rs2,
                            funct7 |-> 0],
                           "Add")
          [] sf.k = "CEBreak" -> Instruction("Environment", IType_default, "Ebreak")

C2_decode(instruction) ==
    LET funct3 == bits8(instruction, 13, 16)
        rd == bits8(instruction, 7, 12)
    IN  CASE funct3 = 0 /\ rd # 0 -> Ok(CVariant("CSlli", CIType_decode(instruction)))
          [] funct3 = 2 /\ rd # 0 -> Ok(CVariant("CLwsp", CIType_decode(instruction)))
          [] funct3 = 4 ->
               LET sf == C2SubFunct_decode(instruction)
               IN  IF sf.ok THEN Ok(CVariant("SubFunct", sf.v)) ELSE sf
          [] funct3 = 6 -> Ok(CVariant("CSwsp", CSSType_decode(instruction)))
          [] funct3 = 3 /\ rd # 0 -> Ok(CVariant("CLdsp", CIType_decode(instruction)))
          [] funct3 = 7 -> Ok(CVariant("CSdsp", CSSType_decode(instruction)))
          [] OTHER -> Err(InvalidFunction(funct3, 0))

C2_expand(c2) ==
    LET t == c2.t
    IN  CASE c2.k = "CSlli" ->
               Instruction("ImmediateArithmetic",
                           [rd |-> t.rs1_rd, funct3 |-> 1, rs1 |-> t.rs1_rd,
                            imm |-> BitAnd(t.imm, SHIFT_MASK)],
                           "Slli")
          [] c2.k = "CLwsp" ->
               Instruction("MemoryLoad",
                           [rd |-> t.rs1_rd, funct3 |-> 2, rs1 |-> REG_SP,
                            imm |-> Shl(twiddle(t.imm, << <<0, 2>>, <<2, 6>> >>, X_LEN),
                                        2, X_LEN)],
                           "Lw")
          [] c2.k = "CSwsp" ->
               Instruction("MemoryStore",
                           [funct3 |-> 2, rs1 |-> REG_SP, rs2 |-> t.rs2,
                            imm |-> Shl(twiddle(t.imm, << <<0, 2>>, <<2, 6>> >>, X_LEN),
                                        2, X_LEN)],
                           "Sw")
          [] c2.k = "SubFunct" -> C2SubFunct_map(t)
          [] c2.k = "CLdsp" ->
               Instruction("MemoryLoad",
                           [rd |-> t.rs1_rd, funct3 |-> 3, rs1 |-> REG_SP,
                            imm |-> Shl(twiddle(t.imm, << <<0, 3>>, <<3, 6>> >>, X_LEN),
                                        3, X_LEN)],
                           "Ld")
          [] c2.k = "CSdsp" ->
               Instruction("MemoryStore",
                           [funct3 |-> 3, rs1 |-> REG_SP, rs2 |-> t.rs2,
                            imm |-> Shl(twiddle(t.imm, << <<0, 3>>, <<3, 6>> >>, X_LEN),
                                        3, X_LEN)],
                           "Sd")

\* CompressedInstruction::decode
CompressedInstruction_decode(instruction) ==
    LET opcode == ToNat(BitAnd(instruction, {0, 1}))
        wrap(q, r) == IF r.ok THEN Ok(CVariant(q, r.v)) ELSE r
    IN  CASE opcode = 0 -> wrap("C0", C0_decode(instruction))
          [] opcode = 1 -> wrap("C1", C1_decode(instruction))
          [] opcode = 2 -> wrap("C2", C2_decode(instruction))
          [] OTHER -> Err(InvalidOpcode(opcode))

\* CompressedInstruction::expand
CompressedInstruction_expand(ci) ==
    CASE ci.k = "C0" -> C0_expand(ci.t)
      [] ci.k = "C1" -> C1_expand(ci.t)
      [] ci.k = "C2" -> C2_expand(ci.t)

(***************************************************************************)
(* crates/isa/src/instructions.rs                                          *)
(***************************************************************************)
\* Result::map(|f| Variant(t, f))
MapInstruction(op, t, r) == IF r.ok THEN Ok(Instruction(op, t, r.v)) ELSE r

\* impl TryFrom<Word> for Instruction
Instruction_try_from(value) ==
    IF is_compressed(value)
    THEN LET c == CompressedInstruction_decode(Trunc(value, HW_BITS))
         IN  IF c.ok THEN Ok(CompressedInstruction_expand(c.v)) ELSE c
    ELSE LET opcode == ToNat(BitAnd(value, 0..6))
             i_type == IType_decode(value)
             s_type == SType_decode(value)
             b_type == BType_decode(value)
             r_type == RType_decode(value)
         IN  CASE opcode = 3 ->
                    MapInstruction("MemoryLoad", i_type, LoadFunction_try_from(i_type))
               [] opcode = 35 ->
                    MapInstruction("MemoryStore", s_type, StoreFunction_try_from(s_type))
               [] opcode = 99 ->
                    MapInstruction("Branch", b_type, BranchFunction_try_from(b_type))
               [] opcode = 19 ->
                    MapInstruction("ImmediateArithmetic", i_type,
                                   ImmediateArithmeticFunction_try_from(i_type))
               [] opcode = 51 ->
                    MapInstruction("RegisterArithmetic", r_type,
                                   RegisterArithmeticFunction_try_from(r_type))
               [] opcode = 55 -> Ok(Instruction("Lui", UType_decode(value), NoFunction))
               [] opcode = 23 -> Ok(Instruction("Auipc", UType_decode(value), NoFunction))
               [] opcode = 111 -> Ok(Instruction("Jal", JType_decode(value), NoFunction))
               [] opcode = 103 -> Ok(Instruction("Jalr", i_type, NoFunction))
               [] opcode = 115 ->
                    MapInstruction("Environment", i_type, EnvironmentFunction_try_from(i_type))
               [] opcode = 15 -> Ok(Fence)
               [] opcode = 27 ->
                    MapInstruction("ImmediateArithmeticWord", i_type,
                                   ImmediateArithmeticWordFunction_try_from(i_type))
               [] opcode = 59 ->
                    MapInstruction("RegisterArithmeticWord", r_type,
                                   RegisterArithmeticWordFunction_try_from(r_type))
               [] opcode = 47 -> MapInstruction("Amo", r_type, AmoFunction_try_from(r_type))
               [] OTHER -> Err(InvalidOpcode(opcode))

\* Instruction::rs1
rs1(i) ==
    IF i.op \in {"MemoryLoad", "MemoryStore", "Branch", "ImmediateArithmetic",
                 "RegisterArithmetic", "Jalr", "Environment", "ImmediateArithmeticWord",
                 "RegisterArithmeticWord", "Amo"}
    THEN Some(i.t.rs1) ELSE None

\* an rs2 that leaves out the stores
rs2_no_store(i) ==
    IF i.op \in {"Branch", "RegisterArithmetic", "RegisterArithmeticWord", "Amo"}
    THEN Some(i.t.rs2) ELSE None

\* Instruction::rs2
rs2(i) ==
    IF i.op \in {"MemoryStore", "Branch", "RegisterArithmetic", "RegisterArithmeticWord", "Amo"}
    THEN Some(i.t.rs2) ELSE None

\* Instruction::rd
rd(i) ==
    IF i.op \in {"MemoryLoad", "ImmediateArithmetic", "RegisterArithmetic", "Lui", "Auipc",
                 "Jal", "Jalr", "Environment", "ImmediateArithmeticWord",
                 "RegisterArithmeticWord", "Amo"}
    THEN Some(i.t.rd) ELSE None

\* Instruction::immediate
immediate(i) ==
    IF i.op \in {"MemoryLoad", "MemoryStore", "Branch", "ImmediateArithmetic", "Lui", "Auipc",
                 "Jal", "Jalr", "Environment", "ImmediateArithmeticWord"}
    THEN Some(i.t.imm) ELSE None

\* Instruction::is_system_call
is_system_call(i) == i.op = "Environment" /\ i.f = "Ecall"

(***************************************************************************)
(* Arithmetic of the ALU on bit sets.                                      *)
(***************************************************************************)
DW_BITS == 2 * X_LEN
One == {0}
MaxValue(w) == 0..(w - 1)
BoolWord(b) == IF b THEN One ELSE {}

\* (v as iN >> k) as uN: arithmetic shift right in a type of w bits
Sra(v, k, w) == Shr(v, k) \cup (IF (w - 1) \in v THEN {b \in 0..(w - 1) : b >= w - k} ELSE {})

\* the shift amount as a natural (amt is masked to fewer than 31 bits by the caller)
ShiftAmount(amt) == ToNat(amt)

\* wrapping negation in a type of w bits
Neg(v, w) == WrappingSub({}, v, w)

\* |v| of v read as a signed integer of w bits, as an unsigned integer of w bits
Abs(v, w) == IF (w - 1) \in v THEN Neg(v, w) ELSE v

\* the sum of a << i over the bits i of b with lo <= i < hi, in a type of w bits
RECURSIVE MulRange(_, _, _, _, _)
MulRange(a, b, lo, hi, w) ==
    IF hi - lo = 1 THEN (IF lo \in b THEN Shl(a, lo, w) ELSE {})
    ELSE LET mid == (lo + hi) \div 2
         IN  WrappingAdd(MulRange(a, b, lo, mid, w), MulRange(a, b, mid, hi, w), w)

\* a.wrapping_mul(b) in a type of w bits
WrappingMul(a, b, w) == MulRange(a, b, 0, w, w)

\* whether a * b overflows a type of w bits
MulOverflows(a, b, w) == \E k \in WrappingMul(a, b, 2 * w) : k >= w

\* One step of the unsigned long division of a by b (b # 0) in a type of w bits:
\* bit i of a is brought down into the remainder of st = [q, r].
DivBit(st, a, b, i, w) ==
    CHOOSE y \in {IF LtU(r1, b) THEN [q |-> st.q, r |-> r1]
                  ELSE [q |-> st.q \cup {i}, r |-> WrappingSub(r1, b, w + 1)]
                  : r1 \in {BitOr(Shl(st.r, 1, w + 1), IF i \in a THEN One ELSE {})}} : TRUE

\* the steps for the bits hi-1 down to lo of a
RECURSIVE DivRange(_, _, _, _, _, _)
DivRange(st, a, b, lo, hi, w) ==
    IF hi - lo = 1 THEN DivBit(st, a, b, lo, w)
    ELSE CHOOSE y \in {DivRange(upper, a, b, lo, (lo + hi) \div 2, w)
                       : upper \in {DivRange(st, a, b, (lo + hi) \div 2, hi, w)}} : TRUE

DivU(a, b, w) == DivRange([q |-> {}, r |-> {}], a, b, 0, w, w).q
RemU(a, b, w) == DivRange([q |-> {}, r |-> {}], a, b, 0, w, w).r

\* (a as iN).wrapping_div(b as iN) as uN, b # 0
WrappingDivS(a, b, w) ==
    LET q == DivU(Abs(a, w), Abs(b, w), w)
    IN  IF ((w - 1) \in a) # ((w - 1) \in b) THEN Neg(q, w) ELSE q

\* (a as iN).wrapping_rem(b as iN) as uN, b # 0
WrappingRemS(a, b, w) ==
    LET r == RemU(Abs(a, w), Abs(b, w), w)
    IN  IF (w - 1) \in a THEN Neg(r, w) ELSE r

MinS(a, b, w) == IF LtS(b, a, w) THEN b ELSE a
MaxS(a, b, w) == IF LtS(a, b, w) THEN b ELSE a
MinU(a, b) == IF LtU(b, a) THEN b ELSE a
MaxU(a, b) == IF LtU(a, b) THEN b ELSE a

(***************************************************************************)
(* The state of the program.                                               *)
(*   register, memory, syscall_interface: the fields of StEmu              *)
(*   overflow_checks: whether the build panics on arithmetic overflow      *)
(*                    (debug profile) or wraps (release profile)           *)
(*   mode:  what the embedder is doing: "idle" between calls, "running"    *)
(*          inside run(), "panicked" after a panic unwound the emulator    *)
(*   last:  the record of the last completed call                          *)
(*   lrsc:  the Lr and Sc instructions completed so far, oldest first      *)
(*   calls: the number of calls made so far                                *)
(*   run_ctx: the call of run() in progress, or the last one: whether exit *)
(*          was set when it was entered and the cycles it has made         *)
(***************************************************************************)
VARIABLES register, memory, syscall_interface, overflow_checks, mode, last, lrsc, calls,
          run_ctx

vars ==
    << register, memory, syscall_interface, overflow_checks, mode, last, lrsc, calls, run_ctx >>

Unit == << >>

\* crates/hw/src/errors.rs: enum PipelineError
MissingState(field) == << "MissingState", field >>
InstructionDecodeError(e) == << "InstructionDecodeError", e >>
MemoryError(e) == << "MemoryError", e >>
SyscallException(syscall_no) == << "SyscallException", syscall_no >>
BadAmoSize(size) == << "BadAmoSize", size >>
UnalignedAmo == << "UnalignedAmo" >>

\* crates/hw/src/memory/errors.rs
PageNotFound(page_index) == << "PageNotFound", page_index >>

\* A panic is carried like an error, with its own tag, so that it unwinds through
\* every caller.
Panic(msg) == Err(<< "panic", msg >>)
IsPanic(res) == ~res.ok /\ res.e[1] = "panic"
IsErr(res) == ~res.ok /\ res.e[1] # "panic"
IsSyscallException(res) == ~res.ok /\ res.e[1] = "SyscallException"

\* a + b in a type of w bits: panics on overflow when the build checks overflow
Add(a, b, w) ==
    IF overflow_checks /\ AddOverflows(a, b, w) THEN Panic("attempt to add with overflow")
    ELSE Ok(WrappingAdd(a, b, w))

\* a * b in a type of w bits
Mul(a, b, w) ==
    IF overflow_checks /\ MulOverflows(a, b, w)
    THEN Panic("attempt to multiply with overflow")
    ELSE Ok(WrappingMul(a, b, w))

\* v << amt, v >> amt and the arithmetic v >> amt in a type of w bits, amt a natural:
\* an amount of w or more panics when the build checks overflow and is otherwise
\* taken modulo w
ShlChecked(v, amt, w) ==
    IF amt >= w /\ overflow_checks THEN Panic("attempt to shift left with overflow")
    ELSE Ok(Shl(v, amt % w, w))

ShrChecked(v, amt, w) ==
    IF amt >= w /\ overflow_checks THEN Panic("attempt to shift right with overflow")
    ELSE Ok(Shr(v, amt % w))

SraChecked(v, amt, w) ==
    IF amt >= w /\ overflow_checks THEN Panic("attempt to shift right with overflow")
    ELSE Ok(Sra(v, amt % w, w))

(***************************************************************************)
(* crates/hw/src/pipeline/register.rs                                      *)
(***************************************************************************)
\* PipelineRegister::default().  The reservation field is the one that
\* pipeline/memory.rs reads and writes.
PipelineRegister_default ==
    [pc |-> {}, registers |-> [i \in 0..31 |-> {}], next_pc |-> {},
     instruction_raw |-> None, instruction |-> None, rs1_value |-> None,
     rs2_value |-> None, immediate |-> None, rd |-> None, control_signals |-> {},
     alu_result |-> None, memory |-> None, reservation |-> None,
     exit |-> FALSE, exit_code |-> {}]

PipelineRegister_new(pc) == [PipelineRegister_default EXCEPT !.pc = pc]

\* advance that moves the program counter and clears nothing
advance_keep(p_reg) == [p_reg EXCEPT !.pc = p_reg.next_pc]

\* *self = Self { pc: self.next_pc, registers: self.registers, ..Default::default() }
advance(p_reg) ==
    [PipelineRegister_default EXCEPT !.pc = p_reg.next_pc, !.registers = p_reg.registers]

\* Ok(Some(rs1 + imm)), Ok(None), or the panic of the addition
effective_address(p_reg) ==
    IF IsSome(p_reg.rs1_value) /\ IsSome(p_reg.immediate)
    THEN LET sum == Add(Unwrap(p_reg.rs1_value), Unwrap(p_reg.immediate), X_LEN)
         IN  IF sum.ok THEN Ok(Some(sum.v)) ELSE sum
    ELSE Ok(None)

\* the outcome of a stage that leaves memory alone: its result and the register
Staged(res, r) == [res |-> res, r |-> r]

(***************************************************************************)
(* crates/hw/src/pipeline/fetch.rs                                         *)
(***************************************************************************)
\* a fetch that takes every instruction to be 4 bytes long
instruction_fetch_wide(p_reg, mem) ==
    LET instr_raw == get_word(mem, p_reg.pc)
        sum == Add(p_reg.pc, {2}, X_LEN)
    IN  IF sum.ok THEN Staged(Ok(Unit), [p_reg EXCEPT !.instruction_raw = Some(instr_raw),
                                                       !.next_pc = sum.v])
        ELSE Staged(sum, [p_reg EXCEPT !.instruction_raw = Some(instr_raw)])

instruction_fetch(p_reg, mem) ==
    LET instr_raw == get_word(mem, p_reg.pc)
        r1 == [p_reg EXCEPT !.instruction_raw = Some(instr_raw)]
        inc == IF is_compressed(instr_raw) THEN {1} ELSE {2}
        sum == Add(p_reg.pc, inc, X_LEN)
    IN  IF sum.ok THEN Staged(Ok(Unit), [r1 EXCEPT !.next_pc = sum.v])
        ELSE Staged(sum, r1)

(***************************************************************************)
(* crates/hw/src/pipeline/decode.rs                                        *)
(***************************************************************************)
\* instruction.rs1().map(|rs1| register.registers[rs1 as usize])
ReadRegister(p_reg, idx) == IF IsSome(idx) THEN Some(p_reg.registers[Unwrap(idx)]) ELSE None

decode_instruction(p_reg) ==
    IF ~IsSome(p_reg.instruction_raw)
    THEN Staged(Err(MissingState("instruction_raw")), p_reg)
    ELSE CHOOSE y \in {
           IF ~d.ok THEN Staged(Err(InstructionDecodeError(d.e)), p_reg)
           ELSE LET instruction == d.v
                    r1 == [p_reg EXCEPT !.rs1_value = ReadRegister(p_reg, rs1(instruction)),
                                        !.rs2_value = ReadRegister(p_reg, rs2(instruction)),
                                        !.rd = rd(instruction),
                                        !.immediate = immediate(instruction),
                                        !.instruction = Some(instruction)]
                IN  IF is_system_call(instruction)
                    THEN Staged(Err(SyscallException(p_reg.registers[REG_A7])), r1)
                    ELSE Staged(Ok(Unit), r1)
           : d \in {Instruction_try_from(Unwrap(p_reg.instruction_raw))}} : TRUE

(***************************************************************************)
(* crates/hw/src/pipeline/execute.rs                                       *)
(***************************************************************************)
execute_mem(p_reg) ==
    LET ea == effective_address(p_reg)
    IN  IF ~ea.ok THEN ea
        ELSE IF IsSome(ea.v) THEN Ok(Unwrap(ea.v))
        ELSE Err(MissingState("effective_address"))

execute_branch(p_reg, b_type, funct) ==
    IF ~IsSome(p_reg.rs1_value) THEN Err(MissingState("rs1_value"))
    ELSE IF ~IsSome(p_reg.rs2_value) THEN Err(MissingState("rs2_value"))
    ELSE LET r1v == Unwrap(p_reg.rs1_value)
             r2v == Unwrap(p_reg.rs2_value)
             target == Add(p_reg.pc, b_type.imm, X_LEN)
             taken == CASE funct = "Beq" -> r1v = r2v
                        [] funct = "Bne" -> r1v # r2v
                        [] funct = "Blt" -> LtS(r1v, r2v, X_LEN)
                        [] funct = "Bge" -> ~LtS(r1v, r2v, X_LEN)
                        [] funct = "Bltu" -> LtU(r1v, r2v)
                        [] funct = "Bgeu" -> ~LtU(r1v, r2v)
         IN  IF ~target.ok THEN target
             ELSE IF taken THEN target
             ELSE Ok(p_reg.next_pc)

execute_imm_arithmetic(p_reg, i_type, funct) ==
    IF ~IsSome(p_reg.rs1_value) THEN Err(MissingState("rs1_value"))
    ELSE LET r1v == Unwrap(p_reg.rs1_value)
             imm == i_type.imm
             shamt == ShiftAmount(BitAnd(imm, SHIFT_MASK))
         IN  Ok(CASE funct = "Addi" -> WrappingAdd(imm, r1v, X_LEN)
                  [] funct = "Xori" -> BitXor(imm, r1v)
                  [] funct = "Ori" -> BitOr(imm, r1v)
                  [] funct = "Andi" -> BitAnd(imm, r1v)
                  [] funct = "Slli" -> Shl(r1v, shamt, X_LEN)
                  [] funct = "Srli" -> Shr(r1v, shamt)
                  [] funct = "Srai" -> Sra(r1v, shamt, X_LEN)
                  [] funct = "Slti" -> BoolWord(LtS(r1v, imm, X_LEN))
                  [] funct = "Sltiu" -> BoolWord(LtU(r1v, imm)))

\* bits 2*XLEN-1..XLEN of a 2*XLEN-bit product, as XWord
HighHalf(product) == Trunc(Shr(product, X_LEN), X_LEN)

execute_reg_arithmetic(p_reg, funct) ==
    IF ~IsSome(p_reg.rs1_value) THEN Err(MissingState("rs1_value"))
    ELSE IF ~IsSome(p_reg.rs2_value) THEN Err(MissingState("rs2_value"))
    ELSE LET r1v == Unwrap(p_reg.rs1_value)
             r2v == Unwrap(p_reg.rs2_value)
             shamt == ShiftAmount(BitAnd(r2v, SHIFT_MASK))
             r1s == sign_extend(r1v, X_LEN - 1, DW_BITS)
             r2s == sign_extend(r2v, X_LEN - 1, DW_BITS)
         IN  CASE funct = "Add" -> Ok(WrappingAdd(r1v, r2v, X_LEN))
               [] funct = "Sub" -> Ok(WrappingSub(r1v, r2v, X_LEN))
               [] funct = "Xor" -> Ok(BitXor(r1v, r2v))
               [] funct = "Or" -> Ok(BitOr(r1v, r2v))
               [] funct = "And" -> Ok(BitAnd(r1v, r2v))
               [] funct = "Sll" -> Ok(Shl(r1v, shamt, X_LEN))
               [] funct = "Srl" -> Ok(Shr(r1v, shamt))
               [] funct = "Sra" -> Ok(Sra(r1v, shamt, X_LEN))
               [] funct = "Slt" -> Ok(BoolWord(LtS(r1v, r2v, X_LEN)))
               [] funct = "Sltu" -> Ok(BoolWord(LtU(r1v, r2v)))
               [] funct = "Mul" -> Mul(r1v, r2v, X_LEN)
               [] funct = "Mulh" -> Ok(HighHalf(WrappingMul(r1s, r2s, DW_BITS)))
               [] funct = "Mulhsu" -> Ok(HighHalf(WrappingMul(r1s, r2v, DW_BITS)))
               [] funct = "Mulhu" -> Ok(HighHalf(WrappingMul(r1v, r2v, DW_BITS)))
               [] funct = "Div" ->
                    Ok(IF r2v = {} THEN MaxValue(X_LEN) ELSE WrappingDivS(r1v, r2v, X_LEN))
               [] funct = "Divu" ->
                    Ok(IF r2v = {} THEN MaxValue(X_LEN) ELSE DivU(r1v, r2v, X_LEN))
               [] funct = "Rem" ->
                    Ok(IF r2v = {} THEN r1v ELSE WrappingRemS(r1v, r2v, X_LEN))
               [] funct = "Remu" ->
                    Ok(IF r2v = {} THEN r1v ELSE RemU(r1v, r2v, X_LEN))

\* a word result that is not sign-extended
SignExtendWord_none(result) == result

\* Ok(sign_extend(result as XWord, 31))
SignExtendWord(result) ==
    IF result.ok THEN Ok(sign_extend(result.v, W_BITS - 1, X_LEN)) ELSE result

execute_imm_arithmetic_word(p_reg, i_type, funct) ==
    IF ~IsSome(p_reg.rs1_value) THEN Err(MissingState("rs1_value"))
    ELSE LET r1w == Trunc(Unwrap(p_reg.rs1_value), W_BITS)
             shamt == ShiftAmount(BitAnd(i_type.imm, 0..4))
         IN  SignExtendWord(
                 CASE funct = "Addiw" -> Add(Trunc(i_type.imm, W_BITS), r1w, W_BITS)
                   [] funct = "Slliw" -> Ok(Shl(r1w, shamt, W_BITS))
                   [] funct = "Srliw" -> Ok(Shr(r1w, shamt))
                   [] funct = "Sraiw" -> Ok(Sra(r1w, shamt, W_BITS)))

execute_reg_arithmetic_word(p_reg, funct) ==
    IF ~IsSome(p_reg.rs1_value) THEN Err(MissingState("rs1_value"))
    ELSE IF ~IsSome(p_reg.rs2_value) THEN Err(MissingState("rs2_value"))
    ELSE LET r1w == Trunc(Unwrap(p_reg.rs1_value), W_BITS)
             r2w == Trunc(Unwrap(p_reg.rs2_value), W_BITS)
             shamt == ShiftAmount(BitAnd(r2w, SHIFT_MASK))
             r1s == sign_extend(r1w, W_BITS - 1, X_LEN)
             r2s == sign_extend(r2w, W_BITS - 1, X_LEN)
         IN  SignExtendWord(
                 CASE funct = "Addw" -> Ok(WrappingAdd(r1w, r2w, W_BITS))
                   [] funct = "Subw" -> Ok(WrappingSub(r1w, r2w, W_BITS))
                   [] funct = "Sllw" -> ShlChecked(r1w, shamt, W_BITS)
                   [] funct = "Srlw" -> ShrChecked(r1w, shamt, W_BITS)
                   [] funct = "Sraw" -> SraChecked(r1w, shamt, W_BITS)
                   [] funct = "Mulw" -> Ok(Trunc(WrappingMul(r1s, r2s, X_LEN), W_BITS))
                   [] funct = "Divw" ->
                        Ok(IF r2w = {} THEN MaxValue(W_BITS) ELSE WrappingDivS(r1w, r2w, W_BITS))
                   [] funct = "Divuw" ->
                        Ok(IF r2w = {} THEN MaxValue(W_BITS) ELSE DivU(r1w, r2w, W_BITS))
                   [] funct = "Remw" ->
                        Ok(IF r2w = {} THEN r1w ELSE WrappingRemS(r1w, r2w, W_BITS))
                   [] funct = "Remuw" ->
                        Ok(IF r2w = {} THEN r1w ELSE RemU(r1w, r2w, W_BITS)))

\* the value of the match in execute, with the next_pc it leaves
ExecuteResult(p_reg, instruction) ==
    LET op == instruction.op
        t == instruction.t
        f == instruction.f
        keep(res) == [res |-> res, next_pc |-> p_reg.next_pc]
    IN  CASE op \in {"MemoryLoad", "MemoryStore"} -> keep(execute_mem(p_reg))
          [] op = "Branch" ->
               LET target == execute_branch(p_reg, t, f)
               IN  [res |-> target, next_pc |-> IF target.ok THEN target.v ELSE p_reg.next_pc]
          [] op = "ImmediateArithmetic" -> keep(execute_imm_arithmetic(p_reg, t, f))
          [] op = "RegisterArithmetic" -> keep(execute_reg_arithmetic(p_reg, f))
          [] op = "Lui" -> keep(Ok(t.imm))
          [] op = "Auipc" -> keep(Add(p_reg.pc, t.imm, X_LEN))
          [] op = "Jal" ->
               LET target == Add(p_reg.pc, t.imm, X_LEN)
               IN  IF target.ok THEN [res |-> Ok(p_reg.next_pc), next_pc |-> target.v]
                   ELSE keep(target)
          [] op = "Jalr" ->
               IF ~IsSome(p_reg.rs1_value) THEN keep(Err(MissingState("rs1_value")))
               ELSE LET target == Add(Unwrap(p_reg.rs1_value), t.imm, X_LEN)
                    IN  IF target.ok
                        THEN [res |-> Ok(p_reg.next_pc), next_pc |-> target.v \ {0}]
                        ELSE keep(target)
          [] op = "Fence" -> keep(Ok({}))
          [] op = "Environment" ->
               IF f = "Ecall" THEN keep(Err(SyscallException(p_reg.registers[0])))
               ELSE keep(Ok({}))
          [] op = "ImmediateArithmeticWord" -> keep(execute_imm_arithmetic_word(p_reg, t, f))
          [] op = "RegisterArithmeticWord" -> keep(execute_reg_arithmetic_word(p_reg, f))
          [] op = "Amo" -> keep(Ok({}))

execute(p_reg) ==
    IF ~IsSome(p_reg.instruction) THEN Staged(Err(MissingState("instruction")), p_reg)
    ELSE LET out == ExecuteResult(p_reg, Unwrap(p_reg.instruction))
         IN  IF out.res.ok
             THEN Staged(Ok(Unit), [p_reg EXCEPT !.next_pc = out.next_pc,
                                                 !.alu_result = Some(out.res.v)])
             ELSE Staged(out.res, p_reg)

(***************************************************************************)
(* crates/hw/src/pipeline/memory.rs                                        *)
(***************************************************************************)
\* the outcome of a stage or kernel that may write memory
StagedMem(res, r, m) == [res |-> res, r |-> r, m |-> m]

\* the length in bytes of the access of a load or a store
LoadLen(funct) ==
    CASE funct \in {"Lb", "Lbu"} -> 1
      [] funct \in {"Lh", "Lhu"} -> HW_LEN
      [] funct \in {"Lw", "Lwu"} -> W_LEN
      [] funct = "Ld" -> DW_LEN

StoreLen(funct) ==
    CASE funct = "Sb" -> 1
      [] funct = "Sh" -> HW_LEN
      [] funct = "Sw" -> W_LEN
      [] funct = "Sd" -> DW_LEN

\* the value a load reads: memory.get_X(effective_address)
\*     .map_err(PipelineError::MemoryError)? as XWord, sign-extended for Lb, Lh, Lw
LoadValue(mem, funct, address) ==
    LET got == scalar_get(mem, address, LoadLen(funct))
    IN  IF ~got.ok THEN Err(MemoryError(got.e))
        ELSE Ok(CASE funct = "Lb" -> sign_extend(got.v, 7, X_LEN)
                  [] funct = "Lh" -> sign_extend(got.v, 15, X_LEN)
                  [] funct = "Lw" -> sign_extend(got.v, 31, X_LEN)
                  [] funct \in {"Lbu", "Lhu", "Lwu", "Ld"} -> got.v)

\* the result of a store and the memory it leaves:
\* memory.set_X(effective_address, value as X).map_err(PipelineError::MemoryError)?
StoreValue(mem, funct, address, value) ==
    LET put == scalar_set(mem, address, Trunc(value, 8 * StoreLen(funct)), StoreLen(funct))
    IN  IF ~put.res.ok THEN [res |-> Err(MemoryError(put.res.e)), m |-> put.m]
        ELSE put

\* a combination whose minimum and maximum all compare unsigned
AmoCombine_unsigned(instr, mem_v, rs2_v) ==
    CASE instr = "Amoswap" -> rs2_v
      [] instr = "Amoadd" -> WrappingAdd(mem_v, rs2_v, X_LEN)
      [] instr = "Amoxor" -> BitXor(mem_v, rs2_v)
      [] instr = "Amoand" -> BitAnd(mem_v, rs2_v)
      [] instr = "Amoor" -> BitOr(mem_v, rs2_v)
      [] instr \in {"Amomin", "Amominu"} -> MinU(rs2_v, mem_v)
      [] instr \in {"Amomax", "Amomaxu"} -> MaxU(rs2_v, mem_v)

\* the combination of the memory value and rs2 by a read-modify-write AMO
AmoCombine(instr, mem_v, rs2_v) ==
    CASE instr = "Amoswap" -> rs2_v
      [] instr = "Amoadd" -> WrappingAdd(mem_v, rs2_v, X_LEN)
      [] instr = "Amoxor" -> BitXor(mem_v, rs2_v)
      [] instr = "Amoand" -> BitAnd(mem_v, rs2_v)
      [] instr = "Amoor" -> BitOr(mem_v, rs2_v)
      [] instr = "Amomin" -> MinS(rs2_v, mem_v, X_LEN)
      [] instr = "Amomax" -> MaxS(rs2_v, mem_v, X_LEN)
      [] instr = "Amominu" -> MinU(rs2_v, mem_v)
      [] instr = "Amomaxu" -> MaxU(rs2_v, mem_v)

\* the Amo arm of mem_access
\* an Sc that does not look at the reservation
reservation_matches_any(p_reg, addr) == TRUE

\* if let Some(reservation) = p_reg.reservation { if reservation == addr { .. } }
reservation_matches(p_reg, addr) == p_reg.reservation = Some(addr)

\* an AMO that accepts every address
amo_unaligned_never(size, addr) == FALSE

\* size == 8 && addr & 7 != 0 || size == 4 && addr & 3 != 0
amo_unaligned(size, addr) ==
    \/ (size = 8 /\ BitAnd(addr, {0, 1, 2}) # {})
    \/ (size = 4 /\ BitAnd(addr, {0, 1}) # {})

mem_access_amo(p_reg, mem, r_type, funct) ==
    LET size == 2^r_type.funct3
        addr == Unwrap(p_reg.rs1_value)
    IN  IF size < 4 THEN StagedMem(Err(BadAmoSize(size)), p_reg, mem)
        ELSE IF ~IsSome(p_reg.rs1_value)
        THEN StagedMem(Err(MissingState("rs1_value")), p_reg, mem)
        ELSE IF amo_unaligned(size, addr)
        THEN StagedMem(Err(UnalignedAmo), p_reg, mem)
        ELSE IF funct = "Lr"
        THEN IF size \notin {4, 8} THEN StagedMem(Err(BadAmoSize(size)), p_reg, mem)
             ELSE LET value == IF size = 4 THEN get_word(mem, addr)
                               ELSE get_doubleword(mem, addr)
                  IN  StagedMem(Ok(Unit),
                                [p_reg EXCEPT !.memory = Some(value),
                                              !.reservation = Some(addr)],
                                mem)
        ELSE IF funct = "Sc"
        THEN LET r1 == [p_reg EXCEPT !.memory = Some(One)]
             IN  IF reservation_matches(p_reg, addr)
                 THEN IF ~IsSome(p_reg.rs2_value)
                      THEN StagedMem(Err(MissingState("rs2_value")), r1, mem)
                      ELSE IF size \notin {4, 8}
                      THEN StagedMem(Err(BadAmoSize(size)), r1, mem)
                      ELSE LET r2v == Unwrap(p_reg.rs2_value)
                               m1 == IF size = 4 THEN set_word(mem, addr, Trunc(r2v, W_BITS))
                                     ELSE set_doubleword(mem, addr, r2v)
                           IN  StagedMem(Ok(Unit),
                                         [r1 EXCEPT !.memory = Some({}),
                                                    !.reservation = None],
                                         m1)
                 ELSE StagedMem(Ok(Unit), [r1 EXCEPT !.reservation = None], mem)
        ELSE IF ~IsSome(p_reg.rs2_value)
        THEN StagedMem(Err(MissingState("rs2_value")), p_reg, mem)
        ELSE IF size \notin {4, 8} THEN StagedMem(Err(BadAmoSize(size)), p_reg, mem)
        ELSE LET raw2 == Unwrap(p_reg.rs2_value)
                 rawm == IF size = 4 THEN get_word(mem, addr) ELSE get_doubleword(mem, addr)
                 r2v == IF size = 4
                        THEN sign_extend(BitAnd(raw2, MaxValue(W_BITS)), W_BITS - 1, X_LEN)
                        ELSE raw2
                 mem_v == IF size = 4
                          THEN sign_extend(BitAnd(rawm, MaxValue(W_BITS)), W_BITS - 1, X_LEN)
                          ELSE rawm
                 new == AmoCombine(funct, mem_v, r2v)
                 m1 == IF size = 4 THEN set_word(mem, addr, Trunc(new, W_BITS))
                       ELSE set_doubleword(mem, addr, new)
             IN  StagedMem(Ok(Unit), [p_reg EXCEPT !.memory = Some(mem_v)], m1)

mem_access(p_reg, mem) ==
    IF ~IsSome(p_reg.instruction) THEN StagedMem(Err(MissingState("instruction")), p_reg, mem)
    ELSE IF ~IsSome(p_reg.alu_result)
    THEN StagedMem(Err(MissingState("alu_result")), p_reg, mem)
    ELSE LET instruction == Unwrap(p_reg.instruction)
             address == Unwrap(p_reg.alu_result)
         IN  CASE instruction.op = "MemoryLoad" ->
                    LET value == LoadValue(mem, instruction.f, address)
                    IN  IF ~value.ok THEN StagedMem(value, p_reg, mem)
                        ELSE StagedMem(Ok(Unit), [p_reg EXCEPT !.memory = Some(value.v)],
                                       mem)
               [] instruction.op = "MemoryStore" ->
                    IF ~IsSome(p_reg.rs2_value)
                    THEN StagedMem(Err(MissingState("rs2_value")), p_reg, mem)
                    ELSE LET put == StoreValue(mem, instruction.f, address,
                                               Unwrap(p_reg.rs2_value))
                         IN  StagedMem(put.res, p_reg, put.m)
               [] instruction.op = "Amo" ->
                    mem_access_amo(p_reg, mem, instruction.t, instruction.f)
               [] OTHER -> StagedMem(Ok(Unit), p_reg, mem)

(***************************************************************************)
(* crates/hw/src/pipeline/writeback.rs                                     *)
(***************************************************************************)
\* writeback without the check of the zero register
writeback_x0(p_reg) ==
    IF IsSome(p_reg.rd)
    THEN LET dest == Unwrap(p_reg.rd)
         IN  IF IsSome(p_reg.memory)
             THEN Staged(Ok(Unit),
                         [p_reg EXCEPT !.registers[dest] = Unwrap(p_reg.memory)])
             ELSE IF IsSome(p_reg.alu_result)
             THEN Staged(Ok(Unit),
                         [p_reg EXCEPT !.registers[dest] = Unwrap(p_reg.alu_result)])
             ELSE Staged(Ok(Unit), p_reg)
    ELSE Staged(Ok(Unit), p_reg)

\* a writeback that prefers the result of the execute stage
writeback_alu(p_reg) ==
    IF IsSome(p_reg.rd) /\ Unwrap(p_reg.rd) # 0 /\ IsSome(p_reg.alu_result)
    THEN Staged(Ok(Unit), [p_reg EXCEPT !.registers[Unwrap(p_reg.rd)] = Unwrap(p_reg.alu_result)])
    ELSE Staged(Ok(Unit), p_reg)

writeback(p_reg) ==
    IF IsSome(p_reg.rd)
    THEN LET dest == Unwrap(p_reg.rd)
         IN  IF dest = 0 THEN Staged(Ok(Unit), p_reg)
             ELSE IF IsSome(p_reg.memory)
             THEN Staged(Ok(Unit),
                         [p_reg EXCEPT !.registers[dest] = Unwrap(p_reg.memory)])
             ELSE IF IsSome(p_reg.alu_result)
             THEN Staged(Ok(Unit),
                         [p_reg EXCEPT !.registers[dest] = Unwrap(p_reg.alu_result)])
             ELSE Staged(Ok(Unit), p_reg)
    ELSE Staged(Ok(Unit), p_reg)

(***************************************************************************)
(* crates/hw/src/memory/interface.rs: read_memory_range                    *)
(***************************************************************************)
\* the loop of read_memory_range: remaining = len - data.len()
RECURSIVE ReadRange(_, _, _, _)
ReadRange(mem, address, remaining, data) ==
    IF remaining = {} THEN Ok(data)
    ELSE LET page_index == PageIndexOf(address)
             page_address == PageAddressOf(address)
             p == page(mem, page_index)
             avail == PAGE_SIZE - page_address
             read_len == IF \E b \in remaining : b >= PAGE_ADDRESS_SIZE THEN avail
                         ELSE MinNat(ToNat(remaining), avail)
             chunk == [k \in 1..read_len |-> PageByte(Unwrap(p), page_address + k - 1)]
             next == Add(address, FromNat(read_len, PAGE_ADDRESS_SIZE + 1), X_LEN)
         IN  IF ~IsSome(p) THEN Err(PageNotFound(page_index))
             ELSE IF ~next.ok THEN next
             ELSE ReadRange(mem, next.v,
                            WrappingSub(remaining, FromNat(read_len, PAGE_ADDRESS_SIZE + 1),
                                        X_LEN),
                            data \o chunk)

read_memory_range(mem, address, len) ==
    IF (X_LEN - 1) \in len THEN Panic("capacity overflow")
    ELSE ReadRange(mem, address, len, << >>)

\* the loop of set_memory_range: the result, and the memory it leaves
RECURSIVE SetRange(_, _, _)
SetRange(mem, address, data) ==
    IF data = << >> THEN [res |-> Ok(Unit), m |-> mem]
    ELSE LET page_index == PageIndexOf(address)
             page_address == PageAddressOf(address)
             write_len == MinNat(Len(data), PAGE_SIZE - page_address)
             m1 == PageMutOrAllocWrite(mem, page_index, page_address,
                                       SubSeq(data, 1, write_len))
             next == Add(address, FromNat(write_len, PAGE_ADDRESS_SIZE + 1), X_LEN)
         IN  IF ~next.ok THEN [res |-> next, m |-> m1]
             ELSE SetRange(m1, next.v, SubSeq(data, write_len + 1, Len(data)))

set_memory_range(mem, address, data) == SetRange(mem, address, data)

(***************************************************************************)
(* The kernels of the repository.                                          *)
(***************************************************************************)
SYS_EXIT == 93
SYS_WRITE == 64
REG_A1 == 11
REG_A2 == 12

\* crates/emu/src/st/mod.rs: impl SyscallInterface for RiscvTestSyscalls
RiscvTestSyscalls_syscall(sysno, mem, p_reg) ==
    IF sysno = FromNat(SYS_EXIT, X_LEN)
    THEN StagedMem(Ok({}),
                   [p_reg EXCEPT !.exit_code = p_reg.registers[REG_A0], !.exit = TRUE],
                   mem)
    ELSE StagedMem(Panic("not implemented"), p_reg, mem)

\* crates/emu/src/test_utils.rs: RiscvTestKernel
RiscvTestKernel_syscall(sysno, mem, p_reg) ==
    IF sysno = FromNat(SYS_EXIT, X_LEN)
    THEN StagedMem(Ok({}),
                   [p_reg EXCEPT !.exit_code = p_reg.registers[REG_A0], !.exit = TRUE],
                   mem)
    ELSE IF sysno = FromNat(SYS_WRITE, X_LEN)
    THEN LET raw_msg == read_memory_range(mem, p_reg.registers[REG_A1],
                                          p_reg.registers[REG_A2])
         IN  IF IsPanic(raw_msg) THEN StagedMem(raw_msg, p_reg, mem)
             ELSE IF ~raw_msg.ok
             THEN StagedMem(Panic("called Result::unwrap() on an Err value"), p_reg, mem)
             ELSE StagedMem(Ok({}), p_reg, mem)
    ELSE StagedMem(Panic("not implemented"), p_reg, mem)

\* crates/hw/src/linux.rs: impl SyscallInterface for ()
Unit_syscall(sysno, mem, p_reg) == StagedMem(Panic("not implemented"), p_reg, mem)

Kernels == {"RiscvTestSyscalls", "RiscvTestKernel", "Unit"}

\* self.syscall_interface.syscall(syscall_no, &mut self.memory, r)
syscall(kernel, syscall_no, mem, p_reg) ==
    CASE kernel = "RiscvTestSyscalls" -> RiscvTestSyscalls_syscall(syscall_no, mem, p_reg)
      [] kernel = "RiscvTestKernel" -> RiscvTestKernel_syscall(syscall_no, mem, p_reg)
      [] kernel = "Unit" -> Unit_syscall(syscall_no, mem, p_reg)

(***************************************************************************)
(* crates/emu/src/st/mod.rs: StEmu                                         *)
(***************************************************************************)
\* a cycle without the arm for syscalls
is_trap_never(cycle_res) == FALSE

\* a cycle that gives every error of a stage to the kernel
is_trap_any(cycle_res) == ~cycle_res.ok

\* the arm Err(PipelineError::SyscallException(syscall_no)) of the match in cycle
is_trap(cycle_res) == IsSyscallException(cycle_res)

\* a cycle that writes the value the kernel returned to a0
syscall_return_a0(p_reg, v) == [p_reg EXCEPT !.registers[REG_A0] = v]

\* what cycle does with the value the kernel returned: the value is dropped
syscall_return(p_reg, v) == p_reg

\* a loop of run that does not look at exit
run_continue_always(p_reg) == TRUE

\* the condition of the loop of run
run_continue(p_reg) == ~p_reg.exit

\* What a call of cycle did: its result, the register and memory it leaves, the
\* register and the memory at the cycle boundary (as the stages, and the kernel if
\* called, left them, before advance), the stages it ran, the syscall numbers it
\* gave to the kernel, and whether it advanced.
CycleOutcome(res, r, m, boundary, boundary_memory, stages, syscalls, advanced) ==
    [res |-> res, r |-> r, m |-> m, boundary |-> boundary,
     boundary_memory |-> boundary_memory, stages |-> stages,
     syscalls |-> syscalls, advanced |-> advanced]

\* what the stages of a cycle did: their result, the register and the memory they
\* leave, and the stages that ran
Ran(res, r, m, stages) == [res |-> res, r |-> r, m |-> m, stages |-> stages]

\* instruction_fetch(r, &self.memory).and_then(|_| decode_instruction(r))
\*     .and_then(|_| execute(r)).and_then(|_| mem_access(r, &mut self.memory))
\*     .and_then(|_| writeback(r))
run_stages(p_reg, mem) ==
    CHOOSE y \in {
      IF ~f.res.ok THEN Ran(f.res, f.r, mem, << "fetch" >>)
      ELSE CHOOSE yd \in {
        IF ~d.res.ok THEN Ran(d.res, d.r, mem, << "fetch", "decode" >>)
        ELSE CHOOSE ye \in {
          IF ~e.res.ok THEN Ran(e.res, e.r, mem, << "fetch", "decode", "execute" >>)
          ELSE CHOOSE ym \in {
            IF ~ma.res.ok
            THEN Ran(ma.res, ma.r, ma.m, << "fetch", "decode", "execute", "memory" >>)
            ELSE CHOOSE yw \in {
                   Ran(wb.res, wb.r, ma.m,
                       << "fetch", "decode", "execute", "memory", "writeback" >>)
                   : wb \in {writeback(ma.r)}} : TRUE
            : ma \in {mem_access(e.r, mem)}} : TRUE
          : e \in {execute(d.r)}} : TRUE
        : d \in {decode_instruction(f.r)}} : TRUE
      : f \in {instruction_fetch(p_reg, mem)}} : TRUE

\* the match on cycle_res, and what follows it
cycle_boundary(w, kernel) ==
    IF is_trap(w.res)
    THEN CHOOSE y \in {
           IF ~k.res.ok
           THEN CycleOutcome(k.res, k.r, k.m, k.r, k.m, w.stages, << w.res.e[2] >>, FALSE)
           ELSE CHOOSE y2 \in {
                  IF r2.exit
                  THEN CycleOutcome(Ok(Unit), r2, k.m, k.r, k.m, w.stages, << w.res.e[2] >>, FALSE)
                  ELSE CycleOutcome(Ok(Unit), advance(r2), k.m, k.r, k.m, w.stages,
                                    << w.res.e[2] >>, TRUE)
                  : r2 \in {syscall_return(k.r, k.res.v)}} : TRUE
           : k \in {syscall(kernel, w.res.e[2], w.m, w.r)}} : TRUE
    ELSE IF ~w.res.ok
    THEN CycleOutcome(w.res, w.r, w.m, w.r, w.m, w.stages, << >>, FALSE)
    ELSE CycleOutcome(Ok(Unit), advance(w.r), w.m, w.r, w.m, w.stages, << >>, TRUE)

cycle(p_reg, mem, kernel) ==
    CHOOSE y \in {cycle_boundary(w, kernel) : w \in {run_stages(p_reg, mem)}} : TRUE

(***************************************************************************)
(* Programs.  An instruction is its encoding and its length in bytes.      *)
(***************************************************************************)
Field(n, lo, width) == Shl(FromNat(n, width), lo, W_BITS)
Insn(b) == [bits |-> b, len |-> 4]
CInsn(b) == [bits |-> b, len |-> 2]

EncI(opcode, funct3, rd_, rs1_, imm) ==
    Insn(Field(opcode, 0, 7) \cup Field(rd_, 7, 5) \cup Field(funct3, 12, 3)
         \cup Field(rs1_, 15, 5) \cup Field(imm, 20, 12))
EncR(opcode, funct3, funct7, rd_, rs1_, rs2_) ==
    Insn(Field(opcode, 0, 7) \cup Field(rd_, 7, 5) \cup Field(funct3, 12, 3)
         \cup Field(rs1_, 15, 5) \cup Field(rs2_, 20, 5) \cup Field(funct7, 25, 7))
EncS(opcode, funct3, rs1_, rs2_, imm) ==
    Insn(Field(opcode, 0, 7) \cup Field(imm % 32, 7, 5) \cup Field(funct3, 12, 3)
         \cup Field(rs1_, 15, 5) \cup Field(rs2_, 20, 5) \cup Field(imm \div 32, 25, 7))

ADDI(rd_, rs1_, imm) == EncI(19, 0, rd_, rs1_, imm)
LW(rd_, rs1_, imm) == EncI(3, 2, rd_, rs1_, imm)
SW(rs2_, rs1_, imm) == EncS(35, 2, rs1_, rs2_, imm)
ECALL(rd_) == EncI(115, 0, rd_, 0, 0)
LR_W(rd_, rs1_) == EncR(47, 2, 8, rd_, rs1_, 0)
SC_W(rd_, rs1_, rs2_) == EncR(47, 2, 12, rd_, rs1_, rs2_)
LR_D(rd_, rs1_) == EncR(47, 3, 8, rd_, rs1_, 0)
SC_D(rd_, rs1_, rs2_) == EncR(47, 3, 12, rd_, rs1_, rs2_)
\* beq rs1, rs2, +8 and jal rd, +8
BEQ8(rs1_, rs2_) == Insn(Field(99, 0, 7) \cup {10} \cup Field(rs1_, 15, 5) \cup Field(rs2_, 20, 5))
JAL8(rd_) == Insn(Field(111, 0, 7) \cup Field(rd_, 7, 5) \cup {23})
\* c.li rd, imm (0 <= imm < 32)
C_LI(rd_, imm) == CInsn(Field(1, 0, 2) \cup Field(imm, 2, 5) \cup Field(rd_, 7, 5) \cup Field(2, 13, 3))
NOP == ADDI(0, 0, 0)
BAD_OPCODE == Insn(Field(127, 0, 7))

\* The addresses and values the programs use: where the program is loaded, two
\* aligned data addresses, a value to store and an exit code.
In == [base |-> 1024, a |-> 256, b |-> 264, value |-> 77, exit_code |-> 3]
PROGRAM_BASE == In.base
DATA_A == In.a
DATA_B == In.b
VALUE == In.value
EXIT_CODE == In.exit_code

ExitTail == << ADDI(REG_A0, 0, EXIT_CODE), ADDI(REG_A7, 0, SYS_EXIT), ECALL(0) >>

P_exit == ExitTail
P_lrsc ==
    << ADDI(5, 0, DATA_A), ADDI(6, 0, VALUE), ADDI(9, 0, 5), LR_W(8, 5), SC_W(9, 5, 6) >>
    \o ExitTail
P_lrsc_d ==
    << ADDI(5, 0, DATA_A), ADDI(6, 0, VALUE), ADDI(9, 0, 5), LR_D(8, 5), SC_D(9, 5, 6) >>
P_lrlrsc ==
    << ADDI(5, 0, DATA_A), ADDI(7, 0, DATA_B), ADDI(6, 0, VALUE), ADDI(9, 0, 5),
       LR_W(8, 5), LR_W(8, 7), SC_W(9, 5, 6) >>
P_write ==
    << ADDI(REG_A0, 0, 1), ADDI(REG_A1, 0, PROGRAM_BASE), ADDI(REG_A2, 0, 4),
       ADDI(REG_A7, 0, SYS_WRITE), ECALL(REG_A0) >> \o ExitTail
P_mem ==
    << ADDI(6, 0, VALUE), SW(6, 0, DATA_A), LW(8, 0, DATA_A), ADDI(0, 0, 5), C_LI(9, 3),
       BEQ8(0, 0), BAD_OPCODE, JAL8(1), BAD_OPCODE, ADDI(REG_A7, 0, SYS_EXIT), ECALL(0) >>
P_unaligned == << ADDI(5, 0, DATA_A + 1), LR_W(8, 5) >>
P_bad == << BAD_OPCODE >>
\* amoadd with funct3 = 001: an access of 2 bytes
P_badsize == << ADDI(5, 0, DATA_A), ADDI(6, 0, VALUE), EncR(47, 1, 0, 8, 5, 6) >>

Programs ==
    {P_exit, P_lrsc, P_lrsc_d, P_lrlrsc, P_write, P_mem, P_unaligned, P_bad, P_badsize}
StagePrograms == {<< ADDI(REG_A0, 0, EXIT_CODE), ADDI(REG_A7, 0, SYS_EXIT), ECALL(REG_A0) >>}

SimpleMemory_new == [p \in {} |-> EMPTY_PAGE]

\* the image of a program: its instructions stored one after the other from addr
RECURSIVE LoadProgram(_, _, _)
LoadProgram(mem, addr, prog) ==
    IF prog = << >> THEN mem
    ELSE LET i == Head(prog)
             a == FromNat(addr, X_LEN)
             m1 == IF i.len = 4 THEN set_word(mem, a, i.bits) ELSE set_halfword(mem, a, i.bits)
         IN  LoadProgram(m1, addr + i.len, Tail(prog))

(***************************************************************************)
(* The emulator in use: the embedder builds a StEmu and calls cycle() and  *)
(* run() on it.                                                            *)
(***************************************************************************)
MaxCycles == 10

\* The record of a completed call: the operation, its result, the register and
\* the memory before the call, the register and the memory at the cycle boundary
\* (as the stages, and the kernel if called, left them, before advance), the
\* stages run, the syscall numbers given to the kernel and whether advance was
\* called.
Call(op, res, boundary, boundary_memory, stages, syscalls, advanced) ==
    [op |-> op, res |-> res, pre_register |-> register, pre_memory |-> memory,
     boundary |-> boundary, boundary_memory |-> boundary_memory, stages |-> stages,
     syscalls |-> syscalls, advanced |-> advanced]

\* The Lr or Sc a completed cycle executed, if any, with what it did: the address,
\* the destination register and its value afterwards, the value of rs2 and the
\* memory at the address before and after.
AmoEvent(c, mem) ==
    LET b == c.boundary
        i == Unwrap(b.instruction)
        addr == Unwrap(b.rs1_value)
        get(m) == IF i.t.funct3 = 2 THEN get_word(m, addr) ELSE get_doubleword(m, addr)
    IN  IF c.res.ok /\ c.syscalls = << >> /\ IsSome(b.instruction)
           /\ i.op = "Amo" /\ i.f \in {"Lr", "Sc"}
        THEN << [f |-> i.f, addr |-> addr, rd |-> i.t.rd, rd_value |-> c.r.registers[i.t.rd],
                 rs2_value |-> IF i.t.funct3 = 2 THEN Trunc(Unwrap(b.rs2_value), W_BITS)
                               ELSE Unwrap(b.rs2_value),
                 before |-> get(mem), after |-> get(c.m)] >>
        ELSE << >>

\* What a call of cycle() leaves behind; a panic unwinds the emulator.
CycleEffect(op, c) ==
    /\ register' = c.r
    /\ memory' = c.m
    /\ last' = Call(op, c.res, c.boundary, c.boundary_memory, c.stages, c.syscalls,
                     c.advanced)
    /\ lrsc' = lrsc \o AmoEvent(c, memory)
    /\ calls' = calls + 1

Init ==
    /\ \E prog \in Programs :
          memory = LoadProgram(SimpleMemory_new, PROGRAM_BASE, prog)
    /\ register = PipelineRegister_new(FromNat(PROGRAM_BASE, X_LEN))
    /\ syscall_interface \in Kernels
    /\ overflow_checks \in BOOLEAN
    /\ mode = "idle"
    /\ last = [op |-> "new", res |-> Ok(Unit), pre_register |-> register,
               pre_memory |-> memory, boundary |-> register, boundary_memory |-> memory,
               stages |-> << >>, syscalls |-> << >>, advanced |-> FALSE]
    /\ lrsc = << >>
    /\ calls = 0
    /\ run_ctx = [entry_exit |-> FALSE, cycles |-> 0]

\* StEmu::cycle called by the embedder
Cycle ==
    /\ mode = "idle"
    /\ calls < MaxCycles
    /\ \E c \in {cycle(register, memory, syscall_interface)} :
           /\ CycleEffect("cycle", c)
           /\ mode' = IF IsPanic(c.res) THEN "panicked" ELSE "idle"
    /\ UNCHANGED << syscall_interface, overflow_checks, run_ctx >>

\* StEmu::run is entered
CallRun ==
    /\ mode = "idle"
    /\ mode' = "running"
    /\ run_ctx' = [entry_exit |-> register.exit, cycles |-> 0]
    /\ UNCHANGED << register, memory, syscall_interface, overflow_checks, last, lrsc, calls >>

\* one iteration of the loop of run: self.cycle()?
RunCycle ==
    /\ mode = "running"
    /\ run_continue(register)
    /\ calls < MaxCycles
    /\ \E c \in {cycle(register, memory, syscall_interface)} :
           /\ CycleEffect(IF c.res.ok THEN "run_cycle" ELSE "run", c)
           /\ mode' = IF IsPanic(c.res) THEN "panicked"
                      ELSE IF c.res.ok THEN "running" ELSE "idle"
    /\ run_ctx' = [run_ctx EXCEPT !.cycles = @ + 1]
    /\ UNCHANGED << syscall_interface, overflow_checks >>

\* the loop of run ends: Ok(self.register)
RunReturn ==
    /\ mode = "running"
    /\ ~run_continue(register)
    /\ mode' = "idle"
    /\ last' = Call("run", Ok(register), register, memory, << >>, << >>, FALSE)
    /\ UNCHANGED << register, memory, syscall_interface, overflow_checks, lrsc, calls,
                    run_ctx >>

Next == Cycle \/ CallRun \/ RunCycle \/ RunReturn

Spec == Init /\ [][Next]_vars
(***************************************************************************)
(* The emulator driven through its public parts: the embedder calls the    *)
(* stage functions, PipelineRegister::advance and Memory::set_word on the  *)
(* fields of the StEmu itself, besides cycle().                            *)
(***************************************************************************)
MaxStageCalls == 5

InitStages ==
    /\ \E prog \in StagePrograms :
          memory = LoadProgram(SimpleMemory_new, PROGRAM_BASE, prog)
    /\ register = PipelineRegister_new(FromNat(PROGRAM_BASE, X_LEN))
    /\ syscall_interface \in Kernels
    /\ overflow_checks \in BOOLEAN
    /\ mode = "idle"
    /\ last = [op |-> "new", res |-> Ok(Unit), pre_register |-> register,
               pre_memory |-> memory, boundary |-> register, boundary_memory |-> memory,
               stages |-> << >>, syscalls |-> << >>, advanced |-> FALSE]
    /\ lrsc = << >>
    /\ calls = 0
    /\ run_ctx = [entry_exit |-> FALSE, cycles |-> 0]

\* What a direct call of a stage, of advance or of set_word leaves behind.
StageEffect(op, res, r, m) ==
    /\ mode = "idle"
    /\ calls < MaxStageCalls
    /\ register' = r
    /\ memory' = m
    /\ last' = Call(op, res, IF op = "advance" THEN register ELSE r, m, << op >>, << >>,
                     op = "advance")
    /\ calls' = calls + 1
    /\ mode' = IF IsPanic(res) THEN "panicked" ELSE "idle"
    /\ UNCHANGED << syscall_interface, overflow_checks, lrsc, run_ctx >>

Fetch == \E o \in {instruction_fetch(register, memory)} : StageEffect("fetch", o.res, o.r, memory)

Decode == \E o \in {decode_instruction(register)} : StageEffect("decode", o.res, o.r, memory)

Execute == \E o \in {execute(register)} : StageEffect("execute", o.res, o.r, memory)

MemAccess == \E o \in {mem_access(register, memory)} : StageEffect("memory", o.res, o.r, o.m)

Writeback == \E o \in {writeback(register)} : StageEffect("writeback", o.res, o.r, memory)

Advance == \E r \in {advance(register)} : StageEffect("advance", Ok(Unit), r, memory)

\* self.memory.set_word(self.register.pc, nop)
SetWord ==
    \E m \in {set_word(memory, register.pc, NOP.bits)} :
        StageEffect("set_word", Ok(Unit), register, m)

StageCycle ==
    /\ mode = "idle"
    /\ calls < MaxStageCalls
    /\ \E c \in {cycle(register, memory, syscall_interface)} :
           /\ CycleEffect("cycle", c)
           /\ mode' = IF IsPanic(c.res) THEN "panicked" ELSE "idle"
    /\ UNCHANGED << syscall_interface, overflow_checks, run_ctx >>

NextStages ==
    Fetch \/ Decode \/ Execute \/ MemAccess \/ Writeback \/ Advance \/ SetWord \/ StageCycle

SpecStages == InitStages /\ [][NextStages]_vars
(***************************************************************************)
(* Properties.                                                             *)
(***************************************************************************)
\* the last step made a call of cycle(), whose result is last.res
CycleDone == last.op \in {"cycle", "run_cycle"} \/ (last.op = "run" /\ last.stages # << >>)

AllStages == << "fetch", "decode", "execute", "memory", "writeback" >>

TransientsEmpty(r) ==
    /\ r.instruction_raw = None /\ r.instruction = None /\ r.rs1_value = None
    /\ r.rs2_value = None /\ r.immediate = None /\ r.rd = None
    /\ r.alu_result = None /\ r.memory = None

IsEcall(r) == IsSome(r.instruction) /\ is_system_call(Unwrap(r.instruction))

\* C1: x0 is hardwired to zero.  registers[0] is 0 in every state reached by calls
\* of cycle() and run() from a register file with registers[0] = 0, and a cycle
\* whose instruction has rd = 0 and that ran writeback leaves the whole register
\* file as it was.
C1_ZeroRegister ==
    /\ register.registers[REG_ZERO] = {}
    /\ (CycleDone /\ last.stages = AllStages /\ last.boundary.rd = Some(REG_ZERO))
          => register.registers = last.pre_register.registers

\* a cycle ran writeback on an instruction with rd = 0 and a non-zero result
C1_Witness ==
    /\ CycleDone /\ last.res.ok /\ last.stages = AllStages
    /\ last.boundary.rd = Some(REG_ZERO)
    /\ IsSome(last.boundary.alu_result) /\ Unwrap(last.boundary.alu_result) # {}

\* C2: whenever cycle() returns Ok and exit is false afterwards, every transient
\* field of the register is empty and pc is the next_pc the instruction left.
C2_TransientsCleared ==
    (CycleDone /\ last.res.ok /\ ~register.exit)
        => TransientsEmpty(register) /\ register.pc = last.boundary.next_pc

\* a cycle of a taken branch returned Ok with exit false
C2_Witness ==
    /\ CycleDone /\ last.res.ok /\ ~register.exit
    /\ IsSome(last.boundary.instruction)
    /\ Unwrap(last.boundary.instruction).op = "Branch"
    /\ last.boundary.next_pc # WrappingAdd(last.pre_register.pc, {2}, X_LEN)

\* C3: advance() changes only pc and the transient fields: the register file,
\* exit, exit_code and the AMO reservation are after it what they were before.
C3_AdvancePreserves ==
    last.advanced =>
        /\ register.registers = last.boundary.registers
        /\ register.exit = last.boundary.exit
        /\ register.exit_code = last.boundary.exit_code
        /\ register.reservation = last.boundary.reservation

\* C4: an Lr at an aligned address a, followed in a later cycle by an Sc at a with
\* no other Lr or Sc executed in between, makes the Sc succeed: it writes rs2 to
\* memory at a and 0 to its rd.
C4_ScSucceeds ==
    \A i \in 2..Len(lrsc) :
        (lrsc[i].f = "Sc" /\ lrsc[i - 1].f = "Lr" /\ lrsc[i - 1].addr = lrsc[i].addr)
            => lrsc[i].rd_value = {} /\ lrsc[i].after = lrsc[i].rs2_value

\* C5: an Lr at a, then an Lr at another address, then an Sc at a: the Sc fails,
\* it writes 1 to its rd and leaves memory at a as it was.
C5_ScFails ==
    \A i \in 3..Len(lrsc) :
        (/\ lrsc[i].f = "Sc" /\ lrsc[i - 1].f = "Lr" /\ lrsc[i - 2].f = "Lr"
         /\ lrsc[i - 2].addr = lrsc[i].addr /\ lrsc[i - 1].addr # lrsc[i].addr)
            => lrsc[i].rd_value = One /\ lrsc[i].after = lrsc[i].before

\* such an Sc was executed, with an rd other than x0 and a value to store that is
\* not the one in memory
C5_Witness ==
    \E i \in 3..Len(lrsc) :
        /\ lrsc[i].f = "Sc" /\ lrsc[i - 1].f = "Lr" /\ lrsc[i - 2].f = "Lr"
        /\ lrsc[i - 2].addr = lrsc[i].addr /\ lrsc[i - 1].addr # lrsc[i].addr
        /\ lrsc[i].rd # REG_ZERO /\ lrsc[i].rs2_value # lrsc[i].before

\* C6: the syscall number of an ECALL is a7: the SyscallException that decode
\* raises, and the one that execute raises when run on an ECALL, carry
\* registers[17], and cycle() calls the kernel exactly once with that number
\* without running execute, memory or writeback.
C6_SyscallNumber ==
    /\ (last.op \in {"decode", "execute"} /\ IsSyscallException(last.res))
          => last.res.e[2] = last.pre_register.registers[REG_A7]
    /\ (CycleDone /\ IsEcall(last.boundary))
          => /\ last.syscalls = << last.pre_register.registers[REG_A7] >>
             /\ last.stages = << "fetch", "decode" >>

\* C7: cycle() and run() never return Err(SyscallException): every
\* SyscallException a stage raises is consumed by cycle().
C7_NoSyscallError ==
    last.op \in {"cycle", "run_cycle", "run"} => ~IsSyscallException(last.res)

\* a cycle whose decode raised the exception returned Ok
C7_Witness ==
    /\ CycleDone /\ last.res.ok /\ Len(last.syscalls) = 1
    /\ last.stages = << "fetch", "decode" >>

\* C8: cycle() never advances when exit is true at the cycle boundary, after the
\* five stages completed as after the kernel handled a syscall: it returns Ok
\* without advance, pc is unchanged, exit stays true and exit_code is kept.
C8_NoAdvanceOnExit ==
    (CycleDone /\ last.res.ok /\ last.boundary.exit)
        => /\ ~last.advanced
           /\ register.pc = last.pre_register.pc
           /\ register.exit
           /\ register.exit_code = last.boundary.exit_code

\* C9: run() calls cycle() only while exit is false, returns Ok(register) only
\* with exit true (the register carrying the exit code the kernel set), returns
\* the error of the cycle that failed otherwise, and makes no cycle when exit is
\* already true on entry.
C9_Run ==
    /\ (last.op = "run_cycle" \/ (last.op = "run" /\ last.stages # << >>))
          => ~last.pre_register.exit
    /\ (last.op = "run" /\ last.res.ok)
          => /\ last.res.v = register
             /\ register.exit
             /\ register.exit_code = register.registers[REG_A0]
    /\ (last.op = "run" /\ ~last.res.ok) => last.stages # << >>
    /\ run_ctx.entry_exit => run_ctx.cycles = 0

\* run() made cycles and returned Ok with a non-zero exit code
C9_Witness ==
    /\ last.op = "run" /\ last.res.ok /\ mode = "idle"
    /\ run_ctx.cycles > 0 /\ register.exit_code # {}

\* C10: after cycle() handles an ECALL for which the kernel returns Ok(v) and
\* leaves exit false, registers and memory are as the kernel left them (v is
\* written to no register and the rd of the ECALL is not written), pc is the pc
\* of the ECALL plus 4 and the transient fields are cleared.
C10_SyscallReturn ==
    (CycleDone /\ Len(last.syscalls) = 1 /\ last.res.ok /\ ~last.boundary.exit)
        => /\ register.registers = last.boundary.registers
           /\ register.registers = last.pre_register.registers
           /\ memory = last.boundary_memory
           /\ register.pc = WrappingAdd(last.pre_register.pc, {2}, X_LEN)
           /\ TransientsEmpty(register)

\* such a cycle, of an ECALL whose rd is a0, with a0 other than the value the
\* kernel returned
C10_Witness ==
    /\ CycleDone /\ Len(last.syscalls) = 1 /\ last.res.ok /\ ~last.boundary.exit
    /\ last.boundary.rd = Some(REG_A0)
    /\ last.pre_register.registers[REG_A0] # {}

\* C11: when a stage fails with an error other than SyscallException, cycle()
\* returns that error, calls no kernel and does not advance: pc, the register
\* file and memory are what they were before the call, and cycle() called again
\* returns the same error.  (The stages over SimpleMemory raise no MemoryError;
\* the errors met are those of decode and of the AMO checks.)
C11_ErrorAborts ==
    CycleDone =>
        \E w \in {run_stages(last.pre_register, last.pre_memory)} :
            (IsErr(w.res) /\ ~IsSyscallException(w.res))
                => /\ last.res = w.res
                   /\ last.syscalls = << >>
                   /\ ~last.advanced
                   /\ register.pc = last.pre_register.pc
                   /\ register.registers = last.pre_register.registers
                   /\ memory = last.pre_memory
                   /\ cycle(register, memory, syscall_interface).res = last.res

\* a cycle whose memory stage failed with an error of an AMO, after cycles that
\* wrote registers
C11_Witness ==
    /\ CycleDone /\ IsErr(last.res)
    /\ last.res.e[1] \in {"BadAmoSize", "UnalignedAmo"}
    /\ last.stages = << "fetch", "decode", "execute", "memory" >>
    /\ register.registers[5] # {}

(***************************************************************************)
(* The memory in use: the embedder calls the accessors of Memory on the    *)
(* SimpleMemory of a StEmu, and runs single load and store instructions    *)
(* over it.                                                                *)
(***************************************************************************)
MaxMemOps == 1

\* u64::MAX
TOP_ADDRESS == 0..(X_LEN - 1)

\* The addresses used: inside page 0 and odd, the last byte of page 0, the first
\* byte of page 1, the last byte of the address space; where the instruction of
\* MemCycle is stored.
MemIn == [inside |-> 17, code |-> 3 * PAGE_SIZE]
MemAddresses ==
    {FromNat(MemIn.inside, X_LEN), FromNat(PAGE_SIZE - 1, X_LEN), FromNat(PAGE_SIZE, X_LEN),
     TOP_ADDRESS}
\* a load or store there is misaligned and crosses into page 1
InstrAddresses == {FromNat(PAGE_SIZE - 1, X_LEN)}
ScalarLens == {1, HW_LEN, W_LEN, DW_LEN}
MemValue == from_le_bytes(<< 129, 0, 3, 4, 5, 6, 7, 248 >>)
MemData == << 9, 0, 7 >>
RangeLens == {0, 1, 3}

\* The memories the embedder starts from, each left by writes to an empty
\* SimpleMemory: nothing mapped; page 0 only; page 1 only; pages 0 and 1; the last
\* page only.
Filled(mem, n) == set_doubleword(mem, FromNat(n, X_LEN), BitNot(MemValue, X_LEN))
MemoryStates ==
    {SimpleMemory_new,
     Filled(Filled(SimpleMemory_new, MemIn.inside), PAGE_SIZE - 8),
     Filled(SimpleMemory_new, PAGE_SIZE),
     Filled(Filled(Filled(SimpleMemory_new, MemIn.inside), PAGE_SIZE - 8), PAGE_SIZE),
     set_doubleword(SimpleMemory_new, TOP_ADDRESS \ {0, 1, 2}, BitNot(MemValue, X_LEN))}

\* The record of a completed call on the memory: the operation, the length of the
\* access, the address, the value written or read, the result and the memory
\* before the call.
MemCall(op, len, address, value, res, pre_memory) ==
    [op |-> op, len |-> len, address |-> address, value |-> value, res |-> res,
     pre_memory |-> pre_memory]

InitMemory ==
    /\ memory \in MemoryStates
    /\ register = PipelineRegister_new(FromNat(MemIn.code, X_LEN))
    /\ syscall_interface = "Unit"
    /\ overflow_checks \in BOOLEAN
    /\ mode = "idle"
    /\ last = MemCall("new", 0, {}, {}, Ok(Unit), memory)
    /\ lrsc = << >>
    /\ calls = 0
    /\ run_ctx = [entry_exit |-> FALSE, cycles |-> 0]

\* The embedder makes at most MaxMemOps calls, and none after a panic.
MemReady == mode = "idle" /\ calls < MaxMemOps

\* What a call on the memory leaves behind.
MemEffect(op, len, address, value, res, m) ==
    /\ memory' = m
    /\ last' = MemCall(op, len, address, value, res, memory)
    /\ calls' = calls + 1
    /\ mode' = IF IsPanic(res) THEN "panicked" ELSE "idle"
    /\ UNCHANGED << register, syscall_interface, overflow_checks, lrsc, run_ctx >>

\* memory.get_byte(a), get_halfword(a), get_word(a), get_doubleword(a)
MemGet ==
    /\ MemReady
    /\ \E a \in MemAddresses, LEN \in ScalarLens :
           \E got \in {scalar_get(memory, a, LEN)} :
               MemEffect("get", LEN, a, IF got.ok THEN got.v ELSE {}, got, memory)

\* memory.set_byte(a, v), set_halfword(a, v), set_word(a, v), set_doubleword(a, v)
MemSet ==
    /\ MemReady
    /\ \E a \in MemAddresses, LEN \in ScalarLens :
           \E put \in {scalar_set(memory, a, Trunc(MemValue, 8 * LEN), LEN)} :
               MemEffect("set", LEN, a, Trunc(MemValue, 8 * LEN), put.res, put.m)

\* memory.set_memory_range(a, data)
MemSetRange ==
    /\ MemReady
    /\ \E a \in MemAddresses :
           \E put \in {set_memory_range(memory, a, MemData)} :
               MemEffect("set_range", Len(MemData), a, MemData, put.res, put.m)

\* memory.read_memory_range(a, len)
MemReadRange ==
    /\ MemReady
    /\ \E a \in MemAddresses, len \in RangeLens :
           \E got \in {read_memory_range(memory, a, FromNat(len, X_LEN))} :
               MemEffect("read_range", len, a, IF got.ok THEN got.v ELSE << >>, got, memory)

LoadFunct3 ==
    [Lb |-> 0, Lh |-> 1, Lw |-> 2, Ld |-> 3, Lbu |-> 4, Lhu |-> 5, Lwu |-> 6]
StoreFunct3 == [Sb |-> 0, Sh |-> 1, Sw |-> 2, Sd |-> 3]

\* The embedder stores one load (rd = x7) or store (rs2 = x6) instruction of
\* base x5 and offset 1 at the code address, sets x5 and x6, and runs cycle() on a
\* new StEmu over the memory.  The record keeps the memory as it was when cycle()
\* was called, and the value x7 holds afterwards for a load.
MemCycleOf(op, funct, insn, a) ==
    \E m0 \in {set_word(memory, FromNat(MemIn.code, X_LEN), insn.bits)} :
      \E r0 \in {[PipelineRegister_new(FromNat(MemIn.code, X_LEN)) EXCEPT
                    !.registers[5] = WrappingSub(a, {0}, X_LEN),
                    !.registers[6] = MemValue]} :
        \E c \in {cycle(r0, m0, syscall_interface)} :
            /\ memory' = c.m
            /\ register' = c.r
            /\ last' = MemCall(op, IF op = "load" THEN LoadLen(funct) ELSE StoreLen(funct),
                               a, c.r.registers[7], c.res, m0)
            /\ calls' = calls + 1
            /\ mode' = IF IsPanic(c.res) THEN "panicked" ELSE "idle"
            /\ UNCHANGED << syscall_interface, overflow_checks, lrsc, run_ctx >>

MemLoad ==
    /\ MemReady
    /\ \E a \in InstrAddresses, funct \in DOMAIN LoadFunct3 :
           MemCycleOf("load", funct, EncI(3, LoadFunct3[funct], 7, 5, 1), a)

MemStore ==
    /\ MemReady
    /\ \E a \in InstrAddresses, funct \in DOMAIN StoreFunct3 :
           MemCycleOf("store", funct, EncS(35, StoreFunct3[funct], 5, 6, 1), a)

NextMemory == MemGet \/ MemSet \/ MemSetRange \/ MemReadRange \/ MemLoad \/ MemStore

SpecMemory == InitMemory /\ [][NextMemory]_vars

(***************************************************************************)
(* Properties of the memory                                                *)
(***************************************************************************)
\* the byte stored at offset off of the page of index page_index: zero when the
\* page is not mapped
StoredByte(mem, page_index, off) ==
    IF page_index \in DOMAIN mem THEN PageByte(mem[page_index], off) ELSE 0

\* byte i (from 0) of an access at address: in the page of the address, or from
\* offset 0 of the page of the next index when it lies past the end of that page
AccessPage(address, i) ==
    IF PageAddressOf(address) + i < PAGE_SIZE THEN PageIndexOf(address)
    ELSE WrappingAdd(PageIndexOf(address), {0}, X_LEN)
AccessOffset(address, i) == (PageAddressOf(address) + i) % PAGE_SIZE
AccessByte(mem, address, i) ==
    StoredByte(mem, AccessPage(address, i), AccessOffset(address, i))
AccessBytes(mem, address, len) == [i \in 1..len |-> AccessByte(mem, address, i - 1)]

MemDone(op) == last.op = op /\ ~IsPanic(last.res)

\* C12: a scalar read gives, for each of its bytes, the byte stored there when the
\* page holding it is mapped and zero when it is not, whatever the neighbouring
\* pages hold: a read that lies inside an unmapped page gives zero even when the
\* next page is mapped and holds non-zero bytes.
C12_UnmappedReadsZero ==
    MemDone("get") =>
        last.res = Ok(from_le_bytes(AccessBytes(last.pre_memory, last.address, last.len)))

ValueByte(value, i) == ToNat(bits(value, 8 * i, 8 * (i + 1), 8))
\* the places (page index and offset) of the len bytes of an access at address
AccessPlaces(address, len) ==
    {<< AccessPage(address, i), AccessOffset(address, i) >> : i \in 0..(len - 1)}
\* the places where one of two memories holds a non-zero byte
StoredPlaces(m1, m2) ==
    UNION ({{<< p, o >> : o \in DOMAIN m1[p]} : p \in DOMAIN m1}
               \cup {{<< p, o >> : o \in DOMAIN m2[p]} : p \in DOMAIN m2})

RangeAddress(address, i) == WrappingAdd(address, FromNat(i, X_LEN), X_LEN)
RangeByte(mem, address, i) ==
    StoredByte(mem, PageIndexOf(RangeAddress(address, i)), PageAddressOf(RangeAddress(address, i)))
\* the bytes of the range (from 0) that lie in an unmapped page
RangeUnmapped(mem, address, len) ==
    {i \in 0..(len - 1) : PageIndexOf(RangeAddress(address, i)) \notin DOMAIN mem}
MinOf(S) == CHOOSE x \in S : \A y \in S : x <= y

\* C16: read_memory_range(a, len) gives Err(PageNotFound(p)), p the index of the
\* first unmapped page that the range touches; it gives Ok with the len stored
\* bytes when every page the range touches is mapped, so Ok with no bytes when
\* len = 0, at every address; and it leaves the memory as it was.
C16_ReadRange ==
    last.op = "read_range" =>
        /\ \E un \in {RangeUnmapped(last.pre_memory, last.address, last.len)} :
               IF un # {}
               THEN last.res = Err(PageNotFound(PageIndexOf(RangeAddress(last.address, MinOf(un)))))
               ELSE last.res = Ok([i \in 1..last.len |->
                                     RangeByte(last.pre_memory, last.address, i - 1)])
        /\ memory = last.pre_memory

\* the pages of the places
PagesOf(places) == {pl[1] : pl \in places}
\* the places of the len bytes of the range that starts at address
RangePlaces(address, len) ==
    {<< PageIndexOf(RangeAddress(address, i)), PageAddressOf(RangeAddress(address, i)) >> :
        i \in 0..(len - 1)}
\* the places a completed write wrote: of a scalar write or store, of a range
WrittenPlaces ==
    IF last.op = "set_range" THEN RangePlaces(last.address, last.len)
    ELSE AccessPlaces(last.address, last.len)

\* C17: pages are allocated by writes only and never freed.  A read (a scalar get,
\* read_memory_range, the fetch and the access of a load instruction) leaves the
\* set of mapped pages as it was; a write (a scalar set, set_memory_range, a store
\* instruction) maps exactly the unmapped pages among those it touches, and a
\* page it maps holds zero wherever the write put no byte; a mapped page stays
\* mapped.
C17_PagesByWritesOnly ==
    /\ DOMAIN last.pre_memory \subseteq DOMAIN memory
    /\ last.op \in {"get", "read_range", "load"} => DOMAIN memory = DOMAIN last.pre_memory
    /\ (last.op \in {"set", "set_range", "store"} /\ ~IsPanic(last.res))
           => /\ DOMAIN memory = (DOMAIN last.pre_memory) \cup PagesOf(WrittenPlaces)
              /\ \A p \in (DOMAIN memory) \ (DOMAIN last.pre_memory) :
                     \A o \in DOMAIN memory[p] : << p, o >> \in WrittenPlaces

\* A halfword written at the last byte of page 0 when only page 1 is mapped: the
\* write maps page 0 and no other page.
C17_Witness ==
    /\ MemDone("set")
    /\ last.len = HW_LEN
    /\ PagesOf(WrittenPlaces) \cap DOMAIN last.pre_memory # {}
    /\ PagesOf(WrittenPlaces) \ DOMAIN last.pre_memory # {}
    /\ DOMAIN memory # DOMAIN last.pre_memory

(***************************************************************************)
(* Atomic instructions: the embedder stores an instruction of the AMO      *)
(* opcode twice from the program base and a doubleword at the data         *)
(* address, sets x5, x6 and the reservation of the register of a new       *)
(* StEmu, and calls cycle().                                               *)
(***************************************************************************)
MaxAmoCycles == 2

\* funct5 of each AmoFunction (the inverse of AmoFunction::try_from)
AmoFunct5 ==
    [Lr |-> 2, Sc |-> 3, Amoswap |-> 1, Amoadd |-> 0, Amoxor |-> 4, Amoand |-> 12,
     Amoor |-> 8, Amomin |-> 16, Amomax |-> 20, Amominu |-> 24, Amomaxu |-> 28]
AmoIn == [opcode |-> 47, rd |-> 7, rs1 |-> 5, rs2 |-> 6, five |-> 5]
\* widths of 2, 4, 8 and 16 bytes
AmoFunct3s == {1, 2, 3, 4}
\* a multiple of 8; a multiple of 4 only; a multiple of 2 only
AmoAddresses ==
    {FromNat(DATA_A, X_LEN), FromNat(DATA_A + 4, X_LEN), FromNat(DATA_A + 2, X_LEN)}
\* 5; -3; 2^32 + 2, whose low word is not its value
AmoValues == {FromNat(AmoIn.five, X_LEN), BitNot({1}, X_LEN), {1, W_BITS}}
\* the doubleword at the data address: the word 0x80000001, then the word 4
AmoStored == from_le_bytes(<< 1, 0, 0, 128, 4, 0, 0, 0 >>)
AmoInsn(funct, funct3) ==
    EncR(AmoIn.opcode, funct3, 4 * AmoFunct5[funct], AmoIn.rd, AmoIn.rs1, AmoIn.rs2)

InitAmo ==
    /\ \E funct \in DOMAIN AmoFunct5, funct3 \in AmoFunct3s :
          memory = set_doubleword(
                       LoadProgram(SimpleMemory_new, PROGRAM_BASE,
                                   << AmoInsn(funct, funct3), AmoInsn(funct, funct3) >>),
                       FromNat(DATA_A, X_LEN), AmoStored)
    /\ \E addr \in AmoAddresses, v \in AmoValues :
          \E resv \in {None, Some(FromNat(DATA_B, X_LEN)), Some(addr)} :
              register = [PipelineRegister_new(FromNat(PROGRAM_BASE, X_LEN)) EXCEPT
                            !.registers[AmoIn.rs1] = addr,
                            !.registers[AmoIn.rs2] = v,
                            !.reservation = resv]
    /\ syscall_interface = "Unit"
    /\ overflow_checks \in BOOLEAN
    /\ mode = "idle"
    /\ last = [op |-> "new", res |-> Ok(Unit), pre_register |-> register,
               pre_memory |-> memory, boundary |-> register, boundary_memory |-> memory,
               stages |-> << >>, syscalls |-> << >>, advanced |-> FALSE]
    /\ lrsc = << >>
    /\ calls = 0
    /\ run_ctx = [entry_exit |-> FALSE, cycles |-> 0]

\* StEmu::cycle called by the embedder
AmoCycle ==
    /\ mode = "idle"
    /\ calls < MaxAmoCycles
    /\ \E c \in {cycle(register, memory, syscall_interface)} :
           /\ CycleEffect("cycle", c)
           /\ mode' = IF IsPanic(c.res) THEN "panicked" ELSE "idle"
    /\ UNCHANGED << syscall_interface, overflow_checks, run_ctx >>

NextAmo == AmoCycle

SpecAmo == InitAmo /\ [][NextAmo]_vars

(***************************************************************************)
(* Properties of the atomic instructions                                   *)
(***************************************************************************)
\* the cycle just completed ran the instruction of the AMO opcode stored at the
\* program base
AmoDone ==
    /\ last.op = "cycle"
    /\ last.pre_register.pc = FromNat(PROGRAM_BASE, X_LEN)
    /\ IsSome(last.boundary.instruction)
    /\ Unwrap(last.boundary.instruction).op = "Amo"
AmoInstr == Unwrap(last.boundary.instruction)
AmoSize == 2^(AmoInstr.t.funct3)
AmoAddr == last.pre_register.registers[AmoInstr.t.rs1]

\* C18: every instruction of the AMO opcode (Lr, Sc and each read-modify-write)
\* whose funct3 is neither 010 nor 011 makes the memory stage fail with
\* BadAmoSize, whatever the reservation, and writes neither the memory, nor the
\* register file, nor the reservation.
C18_BadAmoSize ==
    (AmoDone /\ AmoInstr.t.funct3 \notin {2, 3})
        => /\ last.res = Err(BadAmoSize(AmoSize))
           /\ last.stages = << "fetch", "decode", "execute", "memory" >>
           /\ memory = last.pre_memory
           /\ register.registers = last.pre_register.registers
           /\ register.reservation = last.pre_register.reservation

\* C19: an instruction of the AMO opcode of width 4 or 8 whose address (the value
\* of rs1) is not a multiple of its width makes cycle() return UnalignedAmo, for
\* Lr, Sc and every read-modify-write, and leaves the memory, the registers and
\* the reservation as they were.
C19_UnalignedAmo ==
    (AmoDone /\ AmoSize \in {W_LEN, DW_LEN} /\ ToNat(Trunc(AmoAddr, 3)) % AmoSize # 0)
        => /\ last.res = Err(UnalignedAmo)
           /\ memory = last.pre_memory
           /\ register.registers = last.pre_register.registers
           /\ register.reservation = last.pre_register.reservation

\* An Sc of a doubleword at a multiple of 4 that is not a multiple of 8, on which
\* the hart holds the reservation.
C19_Witness ==
    /\ AmoDone
    /\ AmoInstr.f = "Sc"
    /\ AmoSize = DW_LEN
    /\ ToNat(Trunc(AmoAddr, 3)) = W_LEN
    /\ last.pre_register.reservation = Some(AmoAddr)
    /\ last.res = Err(UnalignedAmo)

\* the cycle just completed ran a read-modify-write AMO of 4 or 8 bytes at an
\* address that is a multiple of its width
RmwDone ==
    /\ AmoDone
    /\ AmoInstr.f \notin {"Lr", "Sc"}
    /\ AmoSize \in {W_LEN, DW_LEN}
    /\ ToNat(Trunc(AmoAddr, 3)) % AmoSize = 0
\* the value in memory at the address before the operation, as rd receives it
RmwOld ==
    IF AmoSize = W_LEN
    THEN sign_extend(scalar_get(last.pre_memory, AmoAddr, W_LEN).v, W_BITS - 1, X_LEN)
    ELSE scalar_get(last.pre_memory, AmoAddr, DW_LEN).v
RmwRs2 == last.pre_register.registers[AmoInstr.t.rs2]
\* the low word of rs2 sign-extended from bit 31, for a 4-byte access
RmwRs2OfWidth ==
    IF AmoSize = W_LEN THEN sign_extend(Trunc(RmwRs2, W_BITS), W_BITS - 1, X_LEN) ELSE RmwRs2
\* op(old, v): the comparisons of Amomin and Amomax signed on XLEN bits, those of
\* Amominu and Amomaxu unsigned
RmwOp(f, old, v) ==
    CASE f = "Amoswap" -> v
      [] f = "Amoadd" -> WrappingAdd(old, v, X_LEN)
      [] f = "Amoxor" -> BitXor(old, v)
      [] f = "Amoand" -> BitAnd(old, v)
      [] f = "Amoor" -> BitOr(old, v)
      [] f = "Amomin" -> IF LtS(v, old, X_LEN) THEN v ELSE old
      [] f = "Amomax" -> IF LtS(old, v, X_LEN) THEN v ELSE old
      [] f = "Amominu" -> IF LtU(v, old) THEN v ELSE old
      [] f = "Amomaxu" -> IF LtU(old, v) THEN v ELSE old
\* what the operation leaves when v is the operand taken from rs2: the old value
\* in rd, op(old, v) truncated to the width in memory at the address, every other
\* byte of the memory as it was, and the reservation as it was when the stages
\* are done
RmwLeaves(v) ==
    /\ last.res = Ok(Unit)
    /\ register.registers[AmoInstr.t.rd] = RmwOld
    /\ scalar_get(memory, AmoAddr, AmoSize) = Ok(Trunc(RmwOp(AmoInstr.f, RmwOld, v), 8 * AmoSize))
    /\ \A pl \in StoredPlaces(memory, last.pre_memory) \ AccessPlaces(AmoAddr, AmoSize) :
           StoredByte(memory, pl[1], pl[2]) = StoredByte(last.pre_memory, pl[1], pl[2])
    /\ last.boundary.reservation = last.pre_register.reservation

ScDone ==
    /\ last.op = "cycle"
    /\ last.res.ok
    /\ IsSome(last.boundary.instruction)
    /\ Unwrap(last.boundary.instruction).op = "Amo"
    /\ Unwrap(last.boundary.instruction).f = "Sc"

\* C21: an Sc that completes leaves the reservation empty, whether it stored or
\* not; an Sc run when the reservation is empty or on an address other than the
\* value of rs1 writes 1 to rd and leaves the memory as it was; so of two Sc's
\* run one after the other, with no Lr in between, the second fails.
C21_ScClearsReservation ==
    /\ ScDone => /\ last.boundary.reservation = None
                 /\ register.reservation = None
    /\ (ScDone /\ last.pre_register.reservation # Some(AmoAddr))
           => /\ register.registers[AmoInstr.t.rd] = One
              /\ memory = last.pre_memory
    /\ \A i \in 2..Len(lrsc) :
           (lrsc[i].f = "Sc" /\ lrsc[i - 1].f = "Sc")
               => lrsc[i].rd_value = One /\ lrsc[i].after = lrsc[i].before

\* Two Sc's of a word at the address of the reservation: the first stored a
\* value that was not in memory, the second did not.
C21_Witness ==
    /\ ScDone
    /\ Len(lrsc) = 2
    /\ lrsc[1].f = "Sc" /\ lrsc[1].rd_value = {} /\ lrsc[1].after # lrsc[1].before
    /\ lrsc[2].f = "Sc" /\ lrsc[2].rd_value = One
    /\ lrsc[2].addr = lrsc[1].addr

(***************************************************************************)
(* One instruction: the embedder stores an instruction at the program      *)
(* base of an empty memory, sets x5 and x6 in the register of a new StEmu, *)
(* and calls cycle().                                                      *)
(***************************************************************************)
MaxInsnCycles == 1

\* the registers the instructions use: rd = x7, rs1 = x5, rs2 = x6
InsnIn == [rd |-> 7, rs1 |-> 5, rs2 |-> 6, op |-> 51, op32 |-> 59, muldiv |-> 1]

\* the StEmu of the embedder: insn stored at the program base of mem, x5 = a and
\* x6 = b
OneInsn(mem, insn, a, b) ==
    /\ memory = LoadProgram(mem, PROGRAM_BASE, << insn >>)
    /\ register = [PipelineRegister_new(FromNat(PROGRAM_BASE, X_LEN)) EXCEPT
                     !.registers[InsnIn.rs1] = a,
                     !.registers[InsnIn.rs2] = b]
    /\ syscall_interface = "Unit"
    /\ overflow_checks \in BOOLEAN
    /\ mode = "idle"
    /\ last = [op |-> "new", res |-> Ok(Unit), pre_register |-> register,
               pre_memory |-> memory, boundary |-> register, boundary_memory |-> memory,
               stages |-> << >>, syscalls |-> << >>, advanced |-> FALSE]
    /\ lrsc = << >>
    /\ calls = 0
    /\ run_ctx = [entry_exit |-> FALSE, cycles |-> 0]

\* StEmu::cycle called by the embedder
InsnCycle ==
    /\ mode = "idle"
    /\ calls < MaxInsnCycles
    /\ \E c \in {cycle(register, memory, syscall_interface)} :
           /\ CycleEffect("cycle", c)
           /\ mode' = IF IsPanic(c.res) THEN "panicked" ELSE "idle"
    /\ UNCHANGED << syscall_interface, overflow_checks, run_ctx >>

\* the cycle just completed ran the stages on the instruction at the program
\* base, and decoded it
InsnDone ==
    /\ last.op = "cycle"
    /\ last.pre_register.pc = FromNat(PROGRAM_BASE, X_LEN)
    /\ IsSome(last.boundary.instruction)
InsnRun == Unwrap(last.boundary.instruction)
InsnRs1 == last.pre_register.registers[InsnIn.rs1]
InsnRs2 == last.pre_register.registers[InsnIn.rs2]
InsnRd == register.registers[InsnIn.rd]

(***************************************************************************)
(* Division                                                                *)
(***************************************************************************)
\* funct3 of the divisions and remainders, of OP and of OP-32 (funct7 = 1)
DivFunct3 == [Div |-> 4, Divu |-> 5, Rem |-> 6, Remu |-> 7]
\* i64::MIN and i32::MIN
MinValue(w) == {w - 1}
\* i64::MIN; i32::MIN sign-extended; 2^31; 7; -7; 0
Dividends ==
    {MinValue(X_LEN), sign_extend(MinValue(W_BITS), W_BITS - 1, X_LEN), MinValue(W_BITS),
     {0, 1, 2}, Neg({0, 1, 2}, X_LEN), {}}
\* 0; -1; 2; 2^32, whose low word is 0; 2^32 - 1, whose low word is -1
Divisors == {{}, MaxValue(X_LEN), {1}, {W_BITS}, MaxValue(W_BITS)}

InitDiv ==
    \E f \in DOMAIN DivFunct3, opc \in {InsnIn.op, InsnIn.op32}, a \in Dividends, b \in Divisors :
        OneInsn(SimpleMemory_new,
                EncR(opc, DivFunct3[f], InsnIn.muldiv, InsnIn.rd, InsnIn.rs1, InsnIn.rs2), a, b)

SpecDiv == InitDiv /\ [][InsnCycle]_vars

DivDone(f) == InsnDone /\ InsnRun.f = f
SextWord(v) == sign_extend(Trunc(v, W_BITS), W_BITS - 1, X_LEN)

\* C22: a division never faults, and in the special cases gives the results of
\* RISC-V: by 0, Div and Divu give all ones and Rem and Remu the dividend; Div of
\* the most negative value by -1 gives the most negative value and Rem gives 0;
\* Divw, Divuw, Remw and Remuw do so on the low words of rs1 and rs2 and
\* sign-extend the result of 32 bits.
C22_Division ==
    /\ (InsnDone /\ InsnRun.op \in {"RegisterArithmetic", "RegisterArithmeticWord"})
           => last.res = Ok(Unit)
    /\ ((DivDone("Div") \/ DivDone("Divu")) /\ InsnRs2 = {}) => InsnRd = MaxValue(X_LEN)
    /\ ((DivDone("Rem") \/ DivDone("Remu")) /\ InsnRs2 = {}) => InsnRd = InsnRs1
    /\ (DivDone("Div") /\ InsnRs1 = MinValue(X_LEN) /\ InsnRs2 = MaxValue(X_LEN))
           => InsnRd = MinValue(X_LEN)
    /\ (DivDone("Rem") /\ InsnRs1 = MinValue(X_LEN) /\ InsnRs2 = MaxValue(X_LEN))
           => InsnRd = {}
    /\ ((DivDone("Divw") \/ DivDone("Divuw")) /\ Trunc(InsnRs2, W_BITS) = {})
           => InsnRd = MaxValue(X_LEN)
    /\ ((DivDone("Remw") \/ DivDone("Remuw")) /\ Trunc(InsnRs2, W_BITS) = {})
           => InsnRd = SextWord(InsnRs1)
    /\ (DivDone("Divw") /\ Trunc(InsnRs1, W_BITS) = MinValue(W_BITS)
            /\ Trunc(InsnRs2, W_BITS) = MaxValue(W_BITS))
           => InsnRd = SextWord(MinValue(W_BITS))
    /\ (DivDone("Remw") /\ Trunc(InsnRs1, W_BITS) = MinValue(W_BITS)
            /\ Trunc(InsnRs2, W_BITS) = MaxValue(W_BITS))
           => InsnRd = {}

\* A Divuw whose rs2 holds 2^32: its low word is 0 and the register is not.
C22_Witness ==
    /\ DivDone("Divuw")
    /\ InsnRs2 # {}
    /\ Trunc(InsnRs2, W_BITS) = {}
    /\ InsnRs1 # {}
    /\ last.res.ok

(***************************************************************************)
(* A compressed instruction against its expansion: the emulator is built   *)
(* on a memory that holds one 16-bit encoding at the program base, with    *)
(* sp, x8 and x9 set, and cycle() is called once.  The stages after decode *)
(* read the instruction and next_pc only, so the expansion as a 32-bit     *)
(* instruction is the same decoded register with the next_pc that          *)
(* instruction_fetch leaves for a word that is not compressed.             *)
(***************************************************************************)
\* execute(r).and_then(|_| mem_access(r, &mut self.memory)).and_then(|_| writeback(r))
\* on a register that instruction_fetch and decode_instruction have filled
run_decoded(p_reg, mem) ==
    CHOOSE ye \in {
      IF ~e.res.ok THEN Ran(e.res, e.r, mem, << "fetch", "decode", "execute" >>)
      ELSE CHOOSE ym \in {
        IF ~ma.res.ok
        THEN Ran(ma.res, ma.r, ma.m, << "fetch", "decode", "execute", "memory" >>)
        ELSE CHOOSE yw \in {
               Ran(wb.res, wb.r, ma.m,
                   << "fetch", "decode", "execute", "memory", "writeback" >>)
               : wb \in {writeback(ma.r)}} : TRUE
        : ma \in {mem_access(e.r, mem)}} : TRUE
      : e \in {execute(p_reg)}} : TRUE

RvcIn == [sp |-> 264, x9 |-> 77, rs1 |-> 8, rs2 |-> 9]

\* bits 2..12 of the encodings: the registers x0, x1, x2, x8 and x9 in the places
\* of the formats, immediates of either sign, and the sub-function selectors
RvcFields == {0, 1, 9, 64, 65, 132, 256, 259, 265, 513, 768, 777, 785, 792,
              1024, 1280, 1289, 1793, 1801, 2047}

RvcEncodings == {Field(q, 0, 2) \cup Field(m, 2, 11) \cup Field(f3, 13, 3) :
                     q \in 0..2, m \in RvcFields, f3 \in 0..7}

RvcValues == {{}, FromNat(DATA_A, X_LEN), MaxValue(X_LEN)}

InitRvc ==
    \E c \in RvcEncodings, a \in RvcValues :
        /\ memory = LoadProgram(SimpleMemory_new, PROGRAM_BASE, << CInsn(c) >>)
        /\ register = [PipelineRegister_new(FromNat(PROGRAM_BASE, X_LEN)) EXCEPT
                         !.registers[REG_SP] = FromNat(RvcIn.sp, X_LEN),
                         !.registers[RvcIn.rs1] = a,
                         !.registers[RvcIn.rs2] = FromNat(RvcIn.x9, X_LEN)]
        /\ syscall_interface = "Unit"
        /\ overflow_checks \in BOOLEAN
        /\ mode = "idle"
        /\ last = [op |-> "new", res |-> Ok(Unit), pre_register |-> register,
                   pre_memory |-> memory, boundary |-> register,
                   boundary_memory |-> memory, stages |-> << >>, syscalls |-> << >>,
                   advanced |-> FALSE]
        /\ lrsc = << >>
        /\ calls = 0
        /\ run_ctx = [entry_exit |-> FALSE, cycles |-> 0]

SpecRvc == InitRvc /\ [][InsnCycle]_vars

\* the cycle just completed ran a compressed instruction to its end
RvcDone ==
    /\ last.op = "cycle"
    /\ last.res.ok
    /\ IsSome(last.boundary.instruction)
    /\ is_compressed(Unwrap(last.boundary.instruction_raw))

\* the expansion of the compressed instruction
RvcExpansion == Unwrap(last.boundary.instruction)

RvcPcPlus(n) == WrappingAdd(last.pre_register.pc, FromNat(n, X_LEN), X_LEN)

\* the register as instruction_fetch and decode_instruction left it
RvcDecoded ==
    decode_instruction(instruction_fetch(last.pre_register, last.pre_memory).r).r

\* one cycle on the expansion as a 32-bit instruction, from the same registers,
\* memory and pc
RvcWide ==
    cycle_boundary(run_decoded([RvcDecoded EXCEPT !.next_pc = RvcPcPlus(W_LEN)],
                               last.pre_memory),
                   syscall_interface)

\* the expansion is a jump or a branch whose condition holds
RvcJumped ==
    \/ RvcExpansion.op \in {"Jal", "Jalr"}
    \/ /\ RvcExpansion.op = "Branch"
       /\ (RvcExpansion.f = "Beq") = (last.pre_register.registers[RvcExpansion.t.rs1]
                                        = last.pre_register.registers[RvcExpansion.t.rs2])

\* the expansion writes the link register
RvcLinks == RvcExpansion.op \in {"Jal", "Jalr"} /\ RvcExpansion.t.rd = REG_RA

RvcSamePc ==
    IF RvcJumped THEN RvcWide.r.pc = register.pc
    ELSE register.pc = RvcPcPlus(HW_LEN) /\ RvcWide.r.pc = RvcPcPlus(W_LEN)

MaxFetches == 1

\* pcs inside page 0, at the last word of page 0, two bytes and one byte before
\* its end, at the start of page 1, and in the last bytes of the address space
FetchAddresses ==
    {FromNat(MemIn.inside, X_LEN), FromNat(PAGE_SIZE - W_LEN, X_LEN),
     FromNat(PAGE_SIZE - HW_LEN, X_LEN), FromNat(PAGE_SIZE - 1, X_LEN),
     FromNat(PAGE_SIZE, X_LEN), TOP_ADDRESS \ {0, 1, 2}, TOP_ADDRESS \ {0}}

InitFetch ==
    \E pc \in FetchAddresses :
        /\ memory \in MemoryStates
        /\ register = PipelineRegister_new(pc)
        /\ syscall_interface = "Unit"
        /\ overflow_checks \in BOOLEAN
        /\ mode = "idle"
        /\ last = MemCall("new", 0, {}, {}, Ok(Unit), memory)
        /\ lrsc = << >>
        /\ calls = 0
        /\ run_ctx = [entry_exit |-> FALSE, cycles |-> 0]

\* instruction_fetch(&mut register, &memory)
FetchCall ==
    /\ mode = "idle"
    /\ calls < MaxFetches
    /\ \E f \in {instruction_fetch(register, memory)} :
           /\ register' = f.r
           /\ last' = MemCall("fetch", W_LEN, register.pc, register.registers, f.res, memory)
           /\ mode' = IF IsPanic(f.res) THEN "panicked" ELSE "idle"
    /\ calls' = calls + 1
    /\ UNCHANGED << memory, syscall_interface, overflow_checks, lrsc, run_ctx >>

SpecFetch == InitFetch /\ [][FetchCall]_vars

\* the little-endian word stored at the pc of the fetch
FetchWord == from_le_bytes(AccessBytes(last.pre_memory, last.address, W_LEN))

\* C24: for every pc and memory, instruction_fetch sets instruction_raw to the
\* little-endian word stored at pc, also when the word crosses into the next
\* page, sets next_pc to pc + 2 when the low two bits of that word are not both 1
\* and to pc + 4 otherwise, and changes neither the register file nor the memory.
C24_Fetch ==
    last.op = "fetch" =>
        /\ last.res.ok
        /\ register.instruction_raw = Some(FetchWord)
        /\ register.next_pc = WrappingAdd(last.address,
                                          IF {0, 1} \subseteq FetchWord THEN {2} ELSE {1},
                                          X_LEN)
        /\ register.registers = last.value
        /\ memory = last.pre_memory

(***************************************************************************)
(* The decoder alone: Instruction::try_from applied to a 32-bit word whose *)
(* low two bits are both 1, drawn over every such opcode, every funct3 and *)
(* the values below of bits 20..31 (the immediate of the I format, and     *)
(* funct7 with the low bits of rs2 in the R format).                       *)
(***************************************************************************)
MaxDecodes == 1

DecodeTops == {0, 1, 32, 64, 1024, 1056, 4095}

DecodeWords ==
    {Field(4 * k + 3, 0, 7) \cup Field(f3, 12, 3) \cup Field(top, 20, 12) :
         k \in 0..31, f3 \in 0..7, top \in DecodeTops}

InitDecode ==
    \E value \in DecodeWords :
        /\ memory = SimpleMemory_new
        /\ register = PipelineRegister_new({})
        /\ syscall_interface = "Unit"
        /\ overflow_checks \in BOOLEAN
        /\ mode = "idle"
        /\ last = [op |-> "new", value |-> value, res |-> Ok(Unit)]
        /\ lrsc = << >>
        /\ calls = 0
        /\ run_ctx = [entry_exit |-> FALSE, cycles |-> 0]

\* Instruction::try_from(value)
DecodeCall ==
    /\ calls < MaxDecodes
    /\ last' = [op |-> "decode", value |-> last.value, res |-> Instruction_try_from(last.value)]
    /\ calls' = calls + 1
    /\ UNCHANGED << register, memory, syscall_interface, overflow_checks, mode, lrsc, run_ctx >>

SpecDecode == InitDecode /\ [][DecodeCall]_vars

DecodedOpcode == ToNat(BitAnd(last.value, 0..6))
DecodedFunct3 == bits8(last.value, 12, 15)
DecodedFunct7 == bits8(last.value, 25, 32)

\* the opcodes of the match in Instruction::try_from
SupportedOpcodes == {3, 35, 99, 19, 51, 55, 23, 111, 103, 115, 15, 27, 59, 47}

\* the word is an operation of RV64I, M or A: its funct3, funct7 and the top
\* bits of a shift immediate are those of an instruction of the opcode
DefinedOperation ==
    CASE DecodedOpcode = 3 -> DecodedFunct3 \in 0..6
      [] DecodedOpcode = 35 -> DecodedFunct3 \in 0..3
      [] DecodedOpcode = 99 -> DecodedFunct3 \in {0, 1, 4, 5, 6, 7}
      [] DecodedOpcode = 19 ->
           \/ DecodedFunct3 \in {0, 2, 3, 4, 6, 7}
           \/ DecodedFunct3 = 1 /\ bits8(last.value, 26, 32) = 0
           \/ DecodedFunct3 = 5 /\ bits8(last.value, 26, 32) \in {0, 16}
      [] DecodedOpcode = 51 ->
           \/ DecodedFunct7 \in {0, 1}
           \/ DecodedFunct7 = 32 /\ DecodedFunct3 \in {0, 5}
      [] DecodedOpcode \in {55, 23, 111} -> TRUE
      [] DecodedOpcode = 103 -> DecodedFunct3 = 0
      [] DecodedOpcode = 115 -> DecodedFunct3 = 0 /\ bits(last.value, 20, 32, W_BITS) \in {{}, {0}}
      [] DecodedOpcode = 15 -> DecodedFunct3 \in {0, 1}
      [] DecodedOpcode = 27 ->
           \/ DecodedFunct3 = 0
           \/ DecodedFunct3 = 1 /\ DecodedFunct7 = 0
           \/ DecodedFunct3 = 5 /\ DecodedFunct7 \in {0, 32}
      [] DecodedOpcode = 59 ->
           \/ DecodedFunct7 = 0 /\ DecodedFunct3 \in {0, 1, 5}
           \/ DecodedFunct7 = 32 /\ DecodedFunct3 \in {0, 5}
           \/ DecodedFunct7 = 1 /\ DecodedFunct3 \in {0, 4, 5, 6, 7}
      [] DecodedOpcode = 47 ->
           /\ DecodedFunct3 \in {2, 3}
           /\ bits8(last.value, 27, 32) \in {2, 3, 1, 0, 4, 12, 8, 16, 20, 24, 28}
      [] OTHER -> FALSE

\* C25: a 32-bit word whose opcode is not supported decodes to
\* InvalidOpcode(opcode), and a word of a supported opcode whose funct3, funct7
\* or shift-immediate top bits are not those of a defined operation decodes to
\* InvalidFunction: neither decodes to an instruction.
C25_OnlyDefined ==
    last.op = "decode" =>
        /\ DecodedOpcode \notin SupportedOpcodes => last.res = Err(InvalidOpcode(DecodedOpcode))
        /\ (DecodedOpcode \in SupportedOpcodes /\ ~DefinedOperation)
               => ~last.res.ok /\ last.res.e[1] = "InvalidFunction"

(***************************************************************************)
(* Environment instructions: one word of the SYSTEM opcode at the program  *)
(* base, over every funct3, rd and rs1 among x0 and the registers the      *)
(* harness fills, and the immediates 0, 1 and 2; cycle() is called once.   *)
(***************************************************************************)
EnvIn == [opcode |-> 115, value |-> 77]

InitEnv ==
    \E f3 \in 0..7, d \in {REG_ZERO, InsnIn.rs1}, s \in {REG_ZERO, InsnIn.rs2}, imm \in 0..2,
       a \in {FromNat(EnvIn.value, X_LEN), MaxValue(X_LEN)} :
        OneInsn(SimpleMemory_new, EncI(EnvIn.opcode, f3, d, s, imm), a, a)

SpecEnv == InitEnv /\ [][InsnCycle]_vars

EbreakDone == InsnDone /\ InsnRun.op = "Environment" /\ InsnRun.f = "Ebreak"

\* C26: a cycle on an instruction that decodes to Environment(_, Ebreak) is a
\* no-op: it completes, changes no register and no byte of memory, does not call
\* the kernel, and leaves pc at the fall-through address.
C26_EbreakNoop ==
    EbreakDone =>
        /\ last.res.ok
        /\ register.registers = last.pre_register.registers
        /\ memory = last.pre_memory
        /\ last.syscalls = << >>
        /\ register.pc = WrappingAdd(last.pre_register.pc, FromNat(W_LEN, X_LEN), X_LEN)

\* the halfword the cycle just completed fetched is a C.ADDI4SPN (quadrant C0,
\* funct3 = 000) whose immediate field, bits 5..12, is zero
Addi4spnZero ==
    /\ last.op = "cycle"
    /\ IsSome(last.boundary.instruction_raw)
    /\ bits(Unwrap(last.boundary.instruction_raw), 0, 2, HW_BITS) = {}
    /\ bits(Unwrap(last.boundary.instruction_raw), 13, 16, HW_BITS) = {}
    /\ bits(Unwrap(last.boundary.instruction_raw), 5, 13, HW_BITS) = {}

\* C27: a C.ADDI4SPN whose immediate field is zero, the all-zero halfword
\* included, is reserved: the cycle gives a decode error and executes nothing,
\* so that the registers, the pc and the memory are as before.
C27_Addi4spnReserved ==
    Addi4spnZero =>
        /\ ~last.res.ok
        /\ last.res.e[1] = "InstructionDecodeError"
        /\ last.stages = << "fetch", "decode" >>
        /\ register = last.pre_register
        /\ memory = last.pre_memory

\* C28: set_word, get_doubleword and set_doubleword enforce natural alignment:
\* called with an address that is not a multiple of the access size, the write
\* leaves the memory as it was and the read returns no value.
C28_AlignmentEnforced ==
    /\ (last.op = "set" /\ last.len \in {W_LEN, DW_LEN} /\ ~IsAligned(last.address, last.len))
           => ~last.res.ok /\ memory = last.pre_memory
    /\ (last.op = "get" /\ last.len = DW_LEN /\ ~IsAligned(last.address, last.len))
           => ~last.res.ok

(***************************************************************************)
(* crates/emu/src/elf/load.rs.  An ELF file is its entry point and its     *)
(* program headers; the data of a segment in the file is p_filesz bytes.   *)
(***************************************************************************)
ElfIn == [pt_load |-> 1, pt_dynamic |-> 2, skipped |-> 1879048195, limit |-> 47,
          entry |-> 4096, byte |-> 7]

\* elf.segment_data(&header)[..header.p_filesz as usize].to_vec()
SegmentData(header) == [k \in 1..header.p_filesz |-> ElfIn.byte]

\* the body of the loop of load_elf for one header that is not skipped: the
\* result, and the memory it leaves
load_segment(mem, header) ==
    LET data == SegmentData(header)
        filled == data \o [k \in 1..(header.p_memsz - header.p_filesz) |-> 0]
        sum == Add(header.p_vaddr, FromNat(header.p_memsz, X_LEN), X_LEN)
    IN  IF header.p_filesz # header.p_memsz /\ header.p_type # ElfIn.pt_load
        THEN [res |-> Err(<< "String", "different file size than mem size" >>), m |-> mem]
        ELSE IF header.p_filesz > header.p_memsz
        THEN [res |-> Err(<< "String", "file size > mem size" >>), m |-> mem]
        ELSE IF ~sum.ok THEN [res |-> sum, m |-> mem]
        ELSE IF \E b \in sum.v : b >= ElfIn.limit
        THEN [res |-> Err(<< "String", "out of 64-bit mem range" >>), m |-> mem]
        ELSE CHOOSE y \in {IF put.res.ok \/ IsPanic(put.res) THEN put
                           ELSE [res |-> Err(<< "String", put.res.e >>), m |-> put.m]
                           : put \in {set_memory_range(mem, header.p_vaddr, filled)}} : TRUE

\* for (i, header) in headers.iter().enumerate() { .. }
RECURSIVE LoadSegments(_, _)
LoadSegments(mem, headers) ==
    IF headers = << >> THEN [res |-> Ok(Unit), m |-> mem]
    ELSE IF Head(headers).p_type = ElfIn.skipped THEN LoadSegments(mem, Tail(headers))
    ELSE CHOOSE y \in {IF ~s.res.ok THEN s ELSE LoadSegments(s.m, Tail(headers))
                       : s \in {load_segment(mem, Head(headers))}} : TRUE

\* load_elf(raw), raw a file that ElfBytes::minimal_parse accepts:
\* Ok(StEmu::new(elf.ehdr.e_entry as XWord, memory, S::default()))
load_elf(elf) ==
    CHOOSE y \in {IF ~s.res.ok THEN s.res
                  ELSE Ok([register |-> PipelineRegister_new(elf.e_entry), memory |-> s.m])
                  : s \in {LoadSegments(SimpleMemory_new, elf.segments)}} : TRUE

(***************************************************************************)
(* The loader in use: a file of one program header, or of a loadable       *)
(* segment followed by one, on which load_elf is called.                   *)
(***************************************************************************)
MaxLoads == 1

\* p_vaddr: 0, 2^47 - 2, 2^47 - 1, 2^47, 2^64 - 2, 2^64 - 1
ElfVaddrs == {{}, 1..46, 0..46, {47}, 1..63, 0..63}

ElfHeaders ==
    [p_type : {ElfIn.pt_load, ElfIn.pt_dynamic, ElfIn.skipped}, p_vaddr : ElfVaddrs,
     p_filesz : 0..2, p_memsz : 0..2]

\* a loadable segment of two bytes at the entry point
ElfText ==
    [p_type |-> ElfIn.pt_load, p_vaddr |-> FromNat(ElfIn.entry, X_LEN), p_filesz |-> 2,
     p_memsz |-> 2]

InitElf ==
    \E header \in ElfHeaders :
      \E segments \in {<< header >>, << ElfText, header >>} :
        /\ memory = SimpleMemory_new
        /\ register = PipelineRegister_default
        /\ syscall_interface = "Unit"
        /\ overflow_checks \in BOOLEAN
        /\ mode = "idle"
        /\ last = [op |-> "new", res |-> Ok(Unit),
                   elf |-> [e_entry |-> FromNat(ElfIn.entry, X_LEN), segments |-> segments]]
        /\ lrsc = << >>
        /\ calls = 0
        /\ run_ctx = [entry_exit |-> FALSE, cycles |-> 0]

\* load_elf(raw): the emulator it returns is the register and the memory
LoadElf ==
    /\ mode = "idle"
    /\ calls < MaxLoads
    /\ \E loaded \in {load_elf(last.elf)} :
           /\ last' = [last EXCEPT !.op = "load_elf", !.res = loaded]
           /\ register' = IF loaded.ok THEN loaded.v.register ELSE register
           /\ memory' = IF loaded.ok THEN loaded.v.memory ELSE memory
           /\ mode' = IF IsPanic(loaded) THEN "panicked" ELSE "idle"
    /\ calls' = calls + 1
    /\ UNCHANGED << syscall_interface, overflow_checks, lrsc, run_ctx >>

SpecElf == InitElf /\ [][LoadElf]_vars

\* the segment is loaded and p_vaddr + p_memsz, as a mathematical integer, is
\* 2^47 or more
OutOfRange(header) ==
    /\ header.p_type # ElfIn.skipped
    /\ \E b \in WrappingAdd(header.p_vaddr, FromNat(header.p_memsz, X_LEN), X_LEN + 1) :
           b >= ElfIn.limit

\* C29: load_elf returns Err, and builds no emulator, for every file that has a
\* program segment, other than one of type 0x70000003, with
\* p_vaddr + p_memsz >= 2^47, the sum taken as a mathematical integer.
C29_RejectsOutOfRange ==
    (last.op = "load_elf"
       /\ \E i \in DOMAIN last.elf.segments : OutOfRange(last.elf.segments[i]))
        => /\ ~last.res.ok
           /\ ~IsPanic(last.res)
           /\ memory = SimpleMemory_new

(***************************************************************************)
(* Writeback: one instruction that has an rd (x7) at the program base, a   *)
(* load of each width at offset 0 or 1 from x5 or an instruction of        *)
(* another kind, over a memory that holds a doubleword at DATA_A, with x5  *)
(* the address DATA_A and x6 a value; cycle() is called once.              *)
(***************************************************************************)
EncU(opcode, rd_, imm) == Insn(Field(opcode, 0, 7) \cup Field(rd_, 7, 5) \cup Field(imm, 12, 20))

WbLoads ==
    {EncI(3, LoadFunct3[f], InsnIn.rd, InsnIn.rs1, imm) : f \in DOMAIN LoadFunct3, imm \in 0..1}

\* addi, add, lui, auipc, jal, jalr, addiw, the word of ebreak with an rd, lr.w,
\* sc.w, amoadd.w and amoswap.d
WbOthers ==
    {ADDI(InsnIn.rd, InsnIn.rs1, 3), EncR(51, 0, 0, InsnIn.rd, InsnIn.rs1, InsnIn.rs2),
     EncU(55, InsnIn.rd, 5), EncU(23, InsnIn.rd, 5), JAL8(InsnIn.rd),
     EncI(103, 0, InsnIn.rd, InsnIn.rs1, 0), EncI(27, 0, InsnIn.rd, InsnIn.rs1, 1),
     EncI(115, 0, InsnIn.rd, 0, 1), LR_W(InsnIn.rd, InsnIn.rs1),
     SC_W(InsnIn.rd, InsnIn.rs1, InsnIn.rs2), EncR(47, 2, 0, InsnIn.rd, InsnIn.rs1, InsnIn.rs2),
     EncR(47, 3, 4, InsnIn.rd, InsnIn.rs1, InsnIn.rs2)}

InitWb ==
    \E insn \in WbLoads \cup WbOthers, stored \in {MemValue, BitNot(MemValue, X_LEN)},
       b \in {FromNat(VALUE, X_LEN), MaxValue(X_LEN)} :
        OneInsn(set_doubleword(SimpleMemory_new, FromNat(DATA_A, X_LEN), stored), insn,
                FromNat(DATA_A, X_LEN), b)

SpecWb == InitWb /\ [][InsnCycle]_vars

\* the cycle just completed ran to its end an instruction whose rd is not x0
WbDone == InsnDone /\ last.res.ok /\ rd(InsnRun) # None /\ rd(InsnRun) # Some(0)

WbRd == register.registers[Unwrap(rd(InsnRun))]

\* the bytes stored at the effective address of the load, as a value
WbStored ==
    from_le_bytes(AccessBytes(last.pre_memory, WrappingAdd(InsnRs1, InsnRun.t.imm, X_LEN),
                              LoadLen(InsnRun.f)))

\* the value of the load: sign-extended for Lb, Lh and Lw
WbLoaded ==
    CASE InsnRun.f = "Lb" -> sign_extend(WbStored, 7, X_LEN)
      [] InsnRun.f = "Lh" -> sign_extend(WbStored, 15, X_LEN)
      [] InsnRun.f = "Lw" -> sign_extend(WbStored, 31, X_LEN)
      [] OTHER -> WbStored

\* C30 as stated: a load with rd != 0 writes to rd the value read from memory at
\* the effective address, sign-extended from bit 7, 15, 31 by Lb, Lh, Lw,
\* zero-extended by Lbu, Lhu, Lwu and whole by Ld; every other instruction with
\* rd != 0 writes to rd the result of the execute stage.
C30_OthersWriteAlu ==
    WbDone =>
        IF InsnRun.op = "MemoryLoad" THEN WbRd = WbLoaded
        ELSE WbRd = Unwrap(last.boundary.alu_result)

\* C30 amended: a load with rd != 0 writes to rd the value read from memory at
\* the effective address, extended as above; an AMO with rd != 0 writes to rd the
\* result of the memory stage; every other instruction with rd != 0 writes to rd
\* the result of the execute stage.
C30_Writeback ==
    WbDone =>
        CASE InsnRun.op = "MemoryLoad" -> WbRd = WbLoaded
          [] InsnRun.op = "Amo" -> WbRd = Unwrap(last.boundary.memory)
          [] OTHER -> WbRd = Unwrap(last.boundary.alu_result)

\* an Lh at an odd address of a halfword whose bit 15 is set
C30_Witness ==
    /\ WbDone
    /\ InsnRun.f = "Lh"
    /\ InsnRun.t.imm = One
    /\ 15 \in WbStored
    /\ WbRd = sign_extend(WbStored, 15, X_LEN)
    /\ WbRd # Unwrap(last.boundary.alu_result)

(***************************************************************************)
(* Branches: one branch of each function at the program base, with an      *)
(* offset forward, backward or zero, over values of x5 and x6 that differ  *)
(* in sign and in magnitude; cycle() is called once.                       *)
(***************************************************************************)
\* bits lo..hi-1 of v, placed from bit at
Place(v, lo, hi, at) == {b - lo + at : b \in {x \in v : x >= lo /\ x < hi}}

\* the branch that BType::decode reads back with the offset imm
EncB(funct3, rs1_, rs2_, imm) ==
    Insn(Field(99, 0, 7) \cup Place(imm, 11, 12, 7) \cup Place(imm, 1, 5, 8)
         \cup Field(funct3, 12, 3) \cup Field(rs1_, 15, 5) \cup Field(rs2_, 20, 5)
         \cup Place(imm, 5, 11, 25) \cup Place(imm, 12, 13, 31))

BranchFunct3 == [Beq |-> 0, Bne |-> 1, Blt |-> 4, Bge |-> 5, Bltu |-> 6, Bgeu |-> 7]

\* 8, -8 and 0
BranchOffsets == {{3}, 3..(X_LEN - 1), {}}

\* 0, 1, -1 and the most negative value
BranchValues == {{}, One, MaxValue(X_LEN), MinValue(X_LEN)}

InitBranch ==
    \E f \in DOMAIN BranchFunct3, imm \in BranchOffsets, a \in BranchValues, b \in BranchValues :
        OneInsn(SimpleMemory_new, EncB(BranchFunct3[f], InsnIn.rs1, InsnIn.rs2, imm), a, b)

SpecBranch == InitBranch /\ [][InsnCycle]_vars

BranchDone == InsnDone /\ InsnRun.op = "Branch"

\* the condition of the branch on the values of rs1 and rs2, as integers
BranchTaken ==
    CASE InsnRun.f = "Beq" -> InsnRs1 = InsnRs2
      [] InsnRun.f = "Bne" -> InsnRs1 # InsnRs2
      [] InsnRun.f = "Blt" -> LtS(InsnRs1, InsnRs2, X_LEN)
      [] InsnRun.f = "Bge" -> ~LtS(InsnRs1, InsnRs2, X_LEN)
      [] InsnRun.f = "Bltu" -> LtU(InsnRs1, InsnRs2)
      [] InsnRun.f = "Bgeu" -> ~LtU(InsnRs1, InsnRs2)

\* C31: for each branch function, next_pc after execute is pc + imm exactly when
\* the condition holds on the values of rs1 and rs2 read at decode, and is
\* otherwise the fall-through address that fetch set; a branch changes no
\* register and no byte of memory.
C31_Branch ==
    BranchDone =>
        /\ last.res.ok
        /\ last.boundary.next_pc =
               WrappingAdd(last.pre_register.pc,
                           IF BranchTaken THEN InsnRun.t.imm ELSE FromNat(W_LEN, X_LEN), X_LEN)
        /\ register.registers = last.pre_register.registers
        /\ memory = last.pre_memory

(***************************************************************************)
(* Jumps: one JAL or JALR at the program base, in the 32-bit and in the    *)
(* compressed form, JALR also with rd = rs1; cycle() is called once.       *)
(***************************************************************************)
\* the jump that JType::decode reads back with the offset imm
EncJ(rd_, imm) ==
    Insn(Field(111, 0, 7) \cup Field(rd_, 7, 5) \cup Place(imm, 12, 20, 12)
         \cup Place(imm, 11, 12, 20) \cup Place(imm, 1, 11, 21) \cup Place(imm, 20, 21, 31))

JumpIn == [jalr |-> 103, c_j_fwd |-> 40993, c_j_back |-> 49125, c_jr |-> 33410, c_jalr |-> 37506]

\* 8, -8, 0 and the odd offset 5
JumpOffsets == {{3}, 3..(X_LEN - 1), {}, {0, 2}}

\* jal x7; jalr x7, x5 and jalr x5, x5; c.j +8, c.j -8, c.jr x5, c.jalr x5
JumpInstructions ==
    {EncJ(InsnIn.rd, imm) : imm \in JumpOffsets \ {{0, 2}}}
    \cup {EncI(JumpIn.jalr, 0, rd_, InsnIn.rs1, ToNat(Trunc(imm, 12))) :
              rd_ \in {InsnIn.rd, InsnIn.rs1}, imm \in JumpOffsets}
    \cup {CInsn(FromNat(c, HW_BITS)) : c \in {JumpIn.c_j_fwd, JumpIn.c_j_back, JumpIn.c_jr, JumpIn.c_jalr}}

\* an aligned address, an odd one, and the two top addresses
JumpValues == {FromNat(DATA_A, X_LEN), FromNat(DATA_A + 1, X_LEN), MaxValue(X_LEN), MaxValue(X_LEN) \ {0}}

InitJump ==
    \E i \in JumpInstructions, a \in JumpValues, b \in {{}, One} :
        OneInsn(SimpleMemory_new, i, a, b)

SpecJump == InitJump /\ [][InsnCycle]_vars

JumpDone == InsnDone /\ InsnRun.op \in {"Jal", "Jalr"}

\* the address after the jump: pc + 4, or pc + 2 for a compressed form
JumpFallThrough ==
    WrappingAdd(last.pre_register.pc,
                IF {0, 1} \subseteq Unwrap(last.boundary.instruction_raw)
                THEN FromNat(4, X_LEN) ELSE FromNat(2, X_LEN), X_LEN)

JumpTarget ==
    IF InsnRun.op = "Jal"
    THEN WrappingAdd(last.pre_register.pc, InsnRun.t.imm, X_LEN)
    ELSE WrappingAdd(last.pre_register.registers[InsnRun.t.rs1], InsnRun.t.imm, X_LEN) \ {0}

\* C32: JAL and JALR write the fall-through address (pc + 4, or pc + 2 for a
\* compressed form) to rd and set next_pc to pc + imm for JAL and to rs1 + imm
\* with bit 0 cleared for JALR, rs1 being the value of the register before the
\* instruction, also when rd = rs1.
C32_Jump ==
    JumpDone =>
        /\ last.res.ok
        /\ last.boundary.next_pc = JumpTarget
        /\ register.pc = JumpTarget
        /\ \A r \in DOMAIN register.registers :
               register.registers[r] =
                   IF r = InsnRun.t.rd /\ r # REG_ZERO THEN JumpFallThrough
                   ELSE last.pre_register.registers[r]

(***************************************************************************)
(* Address sums: a load, a store, AUIPC, a taken branch, JAL and JALR with *)
(* a positive and a negative immediate, at a low and at a higher program   *)
(* address, over values of rs1 at both ends of the address space.          *)
(***************************************************************************)
AddrIn == [auipc |-> 23, low |-> 8, negative |-> 4088, upper |-> 5, upper_negative |-> 1048575]

\* the program base of the other specifications, and the third page
AddrBases == {PROGRAM_BASE, 2 * PAGE_SIZE}

AddrInstructions ==
    {LW(InsnIn.rd, InsnIn.rs1, imm) : imm \in {AddrIn.low, AddrIn.negative}}
    \cup {SW(InsnIn.rs2, InsnIn.rs1, imm) : imm \in {AddrIn.low, AddrIn.negative}}
    \cup {EncU(AddrIn.auipc, InsnIn.rd, imm) : imm \in {AddrIn.upper, AddrIn.upper_negative}}
    \cup {EncB(BranchFunct3.Beq, InsnIn.rs1, InsnIn.rs1, imm) : imm \in {{3}, 3..(X_LEN - 1)}}
    \cup {EncJ(InsnIn.rd, imm) : imm \in {{3}, 3..(X_LEN - 1)}}
    \cup {EncI(JumpIn.jalr, 0, InsnIn.rd, InsnIn.rs1, imm) : imm \in {AddrIn.low, AddrIn.negative}}

\* 0, an address of the first page, and the top doubleword
AddrValues == {{}, FromNat(DATA_A, X_LEN), 3..(X_LEN - 1)}

InitAddr ==
    \E base \in AddrBases, i \in AddrInstructions, a \in AddrValues :
        /\ memory = LoadProgram(SimpleMemory_new, base, << i >>)
        /\ register = [PipelineRegister_new(FromNat(base, X_LEN)) EXCEPT
                         !.registers[InsnIn.rs1] = a,
                         !.registers[InsnIn.rs2] = FromNat(VALUE, X_LEN)]
        /\ syscall_interface = "Unit"
        /\ overflow_checks \in BOOLEAN
        /\ mode = "idle"
        /\ last = [op |-> "new", res |-> Ok(Unit), pre_register |-> register,
                   pre_memory |-> memory, boundary |-> register, boundary_memory |-> memory,
                   stages |-> << >>, syscalls |-> << >>, advanced |-> FALSE]
        /\ lrsc = << >>
        /\ calls = 0
        /\ run_ctx = [entry_exit |-> FALSE, cycles |-> 0]

SpecAddr == InitAddr /\ [][InsnCycle]_vars

\* the first cycle, on the instruction stored at the base
AddrDone ==
    /\ last.op = "cycle"
    /\ calls = 1
    /\ IsSome(last.boundary.instruction)

AddrRun == Unwrap(last.boundary.instruction)

\* the sum of the instruction, modulo 2^XLEN
AddrSum ==
    IF AddrRun.op \in {"Auipc", "Branch", "Jal"}
    THEN WrappingAdd(last.pre_register.pc, AddrRun.t.imm, X_LEN)
    ELSE WrappingAdd(last.pre_register.registers[AddrRun.t.rs1], AddrRun.t.imm, X_LEN)

\* C33: address arithmetic wraps modulo 2^XLEN and never faults: the effective
\* address of a load or store is (rs1 + imm) mod 2^XLEN for every value of rs1
\* and every negative immediate, and the sums pc + imm of a branch, JAL and
\* AUIPC and rs1 + imm of JALR are computed modulo 2^XLEN in the same way.
C33_AddressWraps ==
    AddrDone =>
        /\ ~IsPanic(last.res)
        /\ AddrRun.op \in {"MemoryLoad", "MemoryStore", "Auipc"} => last.boundary.alu_result = Some(AddrSum)
        /\ AddrRun.op \in {"Branch", "Jal"} => last.boundary.next_pc = AddrSum
        /\ AddrRun.op = "Jalr" => last.boundary.next_pc = AddrSum \ {0}

(***************************************************************************)
(* Word variants: one instruction of OP-IMM-32 or OP-32 at the program     *)
(* base, over operands whose low words carry, whose upper halves differ    *)
(* from the sign of the low word, and over shift amounts below and above   *)
(* 32; cycle() is called once.                                             *)
(***************************************************************************)
WordIn == [op_imm_32 |-> 27, minus_one |-> 4095, arithmetic |-> 1024, alt |-> 32]

\* addiw 1, addiw -1; slliw, srliw, sraiw by 1 and by 31
WordImmediates ==
    {EncI(WordIn.op_imm_32, 0, InsnIn.rd, InsnIn.rs1, imm) : imm \in {1, WordIn.minus_one}}
    \cup {EncI(WordIn.op_imm_32, f3, InsnIn.rd, InsnIn.rs1, shamt) : f3 \in {1, 5}, shamt \in {1, W_BITS - 1}}
    \cup {EncI(WordIn.op_imm_32, 5, InsnIn.rd, InsnIn.rs1, WordIn.arithmetic + shamt) : shamt \in {1, W_BITS - 1}}

\* addw, sllw, srlw; subw, sraw; mulw
WordRegisters ==
    {EncR(InsnIn.op32, f3, 0, InsnIn.rd, InsnIn.rs1, InsnIn.rs2) : f3 \in {0, 1, 5}}
    \cup {EncR(InsnIn.op32, f3, WordIn.alt, InsnIn.rd, InsnIn.rs1, InsnIn.rs2) : f3 \in {0, 5}}
    \cup {EncR(InsnIn.op32, 0, InsnIn.muldiv, InsnIn.rd, InsnIn.rs1, InsnIn.rs2)}

\* 1; 2^31 - 1; -2^31; 2^32 + 2^31 + 1, whose upper half is not the sign of its low word
WordValues == {One, MaxValue(W_BITS - 1), (W_BITS - 1)..(X_LEN - 1), {0, W_BITS - 1, W_BITS}}

\* 1; 31; 33; -1
WordAmounts == {One, MaxValue(5), {0, 5}, MaxValue(X_LEN)}

InitWord ==
    \E i \in WordImmediates \cup WordRegisters, a \in WordValues, b \in WordAmounts :
        OneInsn(SimpleMemory_new, i, a, b)

SpecWord == InitWord /\ [][InsnCycle]_vars

WordDone ==
    InsnDone /\ InsnRun.op \in {"ImmediateArithmeticWord", "RegisterArithmeticWord"}

\* the 32-bit operation on the low words, the shift amount taken modulo 32
WordOperation ==
    LET a == Trunc(InsnRs1, W_BITS)
        b == IF InsnRun.op = "ImmediateArithmeticWord"
             THEN Trunc(InsnRun.t.imm, W_BITS) ELSE Trunc(InsnRs2, W_BITS)
        n == ToNat(Trunc(b, 5))
    IN  CASE InsnRun.f \in {"Addiw", "Addw"} -> WrappingAdd(a, b, W_BITS)
          [] InsnRun.f = "Subw" -> WrappingSub(a, b, W_BITS)
          [] InsnRun.f \in {"Slliw", "Sllw"} -> Shl(a, n, W_BITS)
          [] InsnRun.f \in {"Srliw", "Srlw"} -> Shr(a, n)
          [] InsnRun.f \in {"Sraiw", "Sraw"} -> Sra(a, n, W_BITS)
          [] InsnRun.f = "Mulw" -> WrappingMul(a, b, W_BITS)

\* C34: on RV64 the result of every word variant is, for all operand values, the
\* 32-bit operation on the low 32 bits of the operands, modulo 2^32 and with the
\* shift amount modulo 32, sign-extended from bit 31: bits 63..32 of rd all
\* equal bit 31, and no operand combination faults.
C34_WordResult ==
    WordDone =>
        /\ last.res.ok
        /\ InsnRd = WordOperation \cup {b \in W_BITS..(X_LEN - 1) : (W_BITS - 1) \in WordOperation}
        /\ \A b \in W_BITS..(X_LEN - 1) : b \in InsnRd <=> (W_BITS - 1) \in InsnRd

(***************************************************************************)
(* Multiplication: mul, mulh, mulhsu or mulhu at the program base, over    *)
(* operands of both signs whose product does and does not fit XLEN bits;   *)
(* cycle() is called once.                                                 *)
(***************************************************************************)
MulFunct3 == [Mul |-> 0, Mulh |-> 1, Mulhsu |-> 2, Mulhu |-> 3]

\* 3, -1, the most negative value and 2^32
MulValues == {{0, 1}, MaxValue(X_LEN), MinValue(X_LEN), {W_BITS}}

InitMul ==
    \E f \in DOMAIN MulFunct3, a \in MulValues, b \in MulValues :
        OneInsn(SimpleMemory_new,
                EncR(InsnIn.op, MulFunct3[f], InsnIn.muldiv, InsnIn.rd, InsnIn.rs1, InsnIn.rs2),
                a, b)

SpecMul == InitMul /\ [][InsnCycle]_vars

MulDone ==
    /\ InsnDone
    /\ InsnRun.op = "RegisterArithmetic"
    /\ InsnRun.f \in DOMAIN MulFunct3

\* the exact product of a and b in 2 * XLEN bits, two's complement, a and b read
\* as signed when sa and sb say so: the product of the magnitudes, negated when
\* exactly one operand is negative
ExactProduct(a, sa, b, sb) ==
    LET na == sa /\ (X_LEN - 1) \in a
        nb == sb /\ (X_LEN - 1) \in b
        ma == IF na THEN Neg(a, X_LEN) ELSE a
        mb == IF nb THEN Neg(b, X_LEN) ELSE b
        p == WrappingMul(ma, mb, DW_BITS)
    IN  IF na # nb THEN Neg(p, DW_BITS) ELSE p

\* C35: for all values of rs1 and rs2, Mul returns the low XLEN bits of
\* rs1 * rs2 (the product modulo 2^XLEN, no fault on overflow), and Mulh, Mulhsu
\* and Mulhu return bits 2*XLEN-1..XLEN of the exact product of rs1 and rs2 read
\* as signed*signed, signed*unsigned and unsigned*unsigned.
C35_Multiply ==
    MulDone =>
        /\ last.res.ok
        /\ InsnRd =
             CASE InsnRun.f = "Mul" -> Trunc(ExactProduct(InsnRs1, FALSE, InsnRs2, FALSE), X_LEN)
               [] InsnRun.f = "Mulh" -> Shr(ExactProduct(InsnRs1, TRUE, InsnRs2, TRUE), X_LEN)
               [] InsnRun.f = "Mulhsu" -> Shr(ExactProduct(InsnRs1, TRUE, InsnRs2, FALSE), X_LEN)
               [] InsnRun.f = "Mulhu" -> Shr(ExactProduct(InsnRs1, FALSE, InsnRs2, FALSE), X_LEN)

(***************************************************************************)
(* C.ADDI4SPN: Instruction::try_from on every halfword of quadrant C0 with *)
(* funct3 = 000, that is every immediate field and every rd'.              *)
(***************************************************************************)
\* op = 00 at bits 0..1, rd' at bits 2..4, the immediate field at bits 5..12
Addi4spnWords == {Field(rd_, 2, 3) \cup Field(imm, 5, 8) : rd_ \in 0..7, imm \in 0..255}

InitAddi4spn ==
    \E value \in Addi4spnWords :
        /\ memory = SimpleMemory_new
        /\ register = PipelineRegister_new({})
        /\ syscall_interface = "Unit"
        /\ overflow_checks \in BOOLEAN
        /\ mode = "idle"
        /\ last = [op |-> "new", value |-> value, res |-> Ok(Unit)]
        /\ lrsc = << >>
        /\ calls = 0
        /\ run_ctx = [entry_exit |-> FALSE, cycles |-> 0]

SpecAddi4spn == InitAddi4spn /\ [][DecodeCall]_vars

\* nzuimm in the bit order of the C extension: imm[5:4] = instr[12:11],
\* imm[9:6] = instr[10:7], imm[2] = instr[6], imm[3] = instr[5]
CanonicalNzuimm(instr) ==
    Place(instr, 11, 13, 4) \cup Place(instr, 7, 11, 6) \cup Place(instr, 6, 7, 2)
    \cup Place(instr, 5, 6, 3)

\* C36: for every C.ADDI4SPN encoding the expansion is addi rd'+8, x2, imm with
\* imm the zero-extended nzuimm in the canonical bit order: imm[5:4] =
\* instr[12:11], imm[9:6] = instr[10:7], imm[2] = instr[6], imm[3] = instr[5],
\* every other bit of imm zero.
C36_Addi4spn ==
    last.op = "decode" =>
        /\ last.res.ok
        /\ last.res.v =
               Instruction("ImmediateArithmetic",
                           [rd |-> bits8(last.value, 2, 5) + C_REG_OFFSET, funct3 |-> 0,
                            rs1 |-> REG_SP, imm |-> CanonicalNzuimm(last.value)],
                           "Addi")

(***************************************************************************)
(* Transient state: one cycle() on an instruction of every kind that       *)
(* decodes: every major opcode with every funct3 and the funct7 values in  *)
(* use, the AMOs, the instructions of the write-back cases with an address *)
(* in x5, and the compressed encodings.                                    *)
(***************************************************************************)
\* lr.d, sc.d, amoswap.w, amoor.d and amomaxu.w
StateAmos ==
    {LR_D(InsnIn.rd, InsnIn.rs1), SC_D(InsnIn.rd, InsnIn.rs1, InsnIn.rs2)}
    \cup {EncR(47, f3, f7, InsnIn.rd, InsnIn.rs1, InsnIn.rs2) : f3 \in {2, 3}, f7 \in {4, 32, 112}}

StateInstructions ==
    {Insn(w) : w \in DecodeWords} \cup {CInsn(c) : c \in RvcEncodings}
    \cup WbLoads \cup WbOthers \cup StateAmos
    \cup {SW(InsnIn.rs2, InsnIn.rs1, 0), BEQ8(InsnIn.rs1, InsnIn.rs2)}

InitState ==
    \E i \in StateInstructions :
        OneInsn(SimpleMemory_new, i, FromNat(DATA_A, X_LEN), FromNat(VALUE, X_LEN))

SpecState == InitState /\ [][InsnCycle]_vars

\* the cycle at the program base got past decode
StateDecoded == InsnDone

\* C37: within cycle() no stage returns MissingState: for every instruction that
\* decodes, each transient field a later stage reads (instruction_raw,
\* instruction, rs1_value, rs2_value, immediate, alu_result) was set by an
\* earlier stage of the same cycle.
C37_NoMissingState ==
    last.op = "cycle" => (last.res.ok \/ last.res.e[1] # "MissingState")

\* a store went through the five stages: execute read rs1_value and immediate,
\* the memory stage alu_result and rs2_value
C37_Witness ==
    /\ StateDecoded
    /\ InsnRun.op = "MemoryStore"
    /\ last.res.ok
    /\ last.stages = << "fetch", "decode", "execute", "memory", "writeback" >>

(***************************************************************************)
(* Load-reserved word: lr.w x7, (x5) or lw x7, 0(x5) at the program base,  *)
(* x5 an aligned address of a stored doubleword whose two words differ in  *)
(* bit 31; cycle() is called once.                                         *)
(***************************************************************************)
LrAddresses == {FromNat(a, X_LEN) : a \in {DATA_A, DATA_A + W_LEN, DATA_B, DATA_B + W_LEN}}

LrStored == {MemValue, BitNot(MemValue, X_LEN), MaxValue(X_LEN), {W_BITS - 1}}

InitLr ==
    \E i \in {LR_W(InsnIn.rd, InsnIn.rs1), LW(InsnIn.rd, InsnIn.rs1, 0)},
       a \in LrAddresses, stored \in LrStored :
        OneInsn(set_doubleword(
                    set_doubleword(SimpleMemory_new, FromNat(DATA_A, X_LEN), stored),
                    FromNat(DATA_B, X_LEN), stored),
                i, a, FromNat(VALUE, X_LEN))

SpecLr == InitLr /\ [][InsnCycle]_vars

\* the cycle at the program base ran an lr.w
LrDone == InsnDone /\ InsnRun.op = "Amo" /\ InsnRun.f = "Lr" /\ InsnRun.t.funct3 = 2

\* one cycle of lw x7, 0(x5) from the same registers and the same data
LrAsLw ==
    cycle(last.pre_register,
          LoadProgram(last.pre_memory, PROGRAM_BASE, << LW(InsnIn.rd, InsnIn.rs1, 0) >>),
          "Unit")

\* C38: on RV64 an Lr of 4 bytes writes to rd the value that Lw from the same
\* address would write, the 32-bit word of memory sign-extended from bit 31, and
\* records the address as the reservation.
C38_LrWord ==
    LrDone =>
        /\ last.res.ok
        /\ LrAsLw.res.ok
        /\ InsnRd = LrAsLw.r.registers[InsnIn.rd]
        /\ InsnRd = sign_extend(from_le_bytes(AccessBytes(last.pre_memory, InsnRs1, W_LEN)),
                                W_BITS - 1, X_LEN)
        /\ last.boundary.reservation = Some(InsnRs1)

(***************************************************************************)
(* crates/isa/src/bits.rs: sign_extend as a call, with its debug_assert!   *)
(* on the index.  A build has debug assertions exactly when it has         *)
(* overflow checks (the dev and test profiles have both, release neither). *)
(* Without them an index of field_size or more is not rejected: the shift  *)
(* amounts index and field_size - 1 - index are taken modulo field_size.   *)
(***************************************************************************)
debug_assertions == overflow_checks

sign_extend_call(data, index, field_size) ==
    IF index >= field_size /\ debug_assertions
    THEN Panic("index is too large for sign-extension over the field size")
    ELSE Ok(sign_extend(data, index % field_size, field_size))

MaxSignExtends == 1

\* 0, -1, 0b1010, 2^63, 2^31, and a value with alternating bytes
SignExtendValues ==
    {{}, MaxValue(X_LEN), {1, 3}, MinValue(X_LEN), MinValue(W_BITS), MemValue}

\* every index of the type, the first two past it, and one far past it
SignExtendIndices == 0..(X_LEN + 1) \cup {2 * X_LEN + 3}

InitSignExtend ==
    \E v \in SignExtendValues, i \in SignExtendIndices :
        /\ memory = SimpleMemory_new
        /\ register = PipelineRegister_new({})
        /\ syscall_interface = "Unit"
        /\ overflow_checks \in BOOLEAN
        /\ mode = "idle"
        /\ last = [op |-> "new", data |-> v, index |-> i, res |-> Ok(Unit)]
        /\ lrsc = << >>
        /\ calls = 0
        /\ run_ctx = [entry_exit |-> FALSE, cycles |-> 0]

\* sign_extend(data, index) on an XWord
SignExtendCall ==
    /\ calls < MaxSignExtends
    /\ last' = [op |-> "sign_extend", data |-> last.data, index |-> last.index,
                res |-> sign_extend_call(last.data, last.index, X_LEN)]
    /\ calls' = calls + 1
    /\ UNCHANGED << register, memory, syscall_interface, overflow_checks, mode, lrsc, run_ctx >>

SpecSignExtend == InitSignExtend /\ [][SignExtendCall]_vars

\* C39: for every value v and every bit index i < XLEN, sign_extend(v, i) keeps
\* bits 0..i of v and sets every bit above i to bit i of v; a call with an index
\* that is at least the bit width of the type panics.
C39_SignExtend ==
    last.op = "sign_extend" =>
        IF last.index < X_LEN
        THEN /\ last.res.ok
             /\ \A b \in 0..(X_LEN - 1) :
                    b \in last.res.v <=>
                        (IF b <= last.index THEN b \in last.data ELSE last.index \in last.data)
        ELSE IsPanic(last.res)
====
